---------------------------- MODULE Spec2Model ----------------------------
(***************************************************************************)
(* ostickethelper: the `read` command (cli.py), the attachment download    *)
(* (browser.py) and the receipt archiver (archiver.py), over a small file  *)
(* system: the per-ticket inbox folders, the receipt files in the inbox    *)
(* root and the scratch directories under temp_dir.                        *)
(*                                                                         *)
(* Strings that the code inspects (file names) are sequences of            *)
(* one-character strings.  A file is a record with a field fmt.            *)
(***************************************************************************)
EXTENDS Naturals, Integers, Sequences, FiniteSets, TLC

VARIABLES
    args,        \* the command line of `read`: ticket_ids, no_download, no_pdf, force
    cli_pc,      \* position of cli.read
    idx,         \* index of the ticket of the current loop iteration
    ticket,      \* the Ticket returned by browser.read_ticket in this iteration
    downloaded_files, \* what download_attachments returned in this iteration
    all_outputs, \* cli.read: the detail texts collected for standard output
    stdout,      \* cli.read: the detail texts written to standard output
    stderr,      \* per loop iteration, what read echoed about the receipt
    exit,        \* the exception that ended the command (outer handler), or NoExc
    fs_inbox,    \* ticket id -> the folder inbox_dir/<id>
    fs_out,      \* ticket id -> the file inbox_dir/<id>.pdf
    fs_scratch,  \* scratch directory -> its files (only existing directories)
    run,         \* per loop iteration, the frame of its generate_receipt_pdf call
    faults,      \* how many operations of the environment have failed so far
    img,         \* compress_image_to_pdf taken alone: its input and its result
    call         \* a helper function taken alone: its name, its input and its result

vars == <<args, cli_pc, idx, ticket, downloaded_files, all_outputs, stdout, stderr, exit,
          fs_inbox, fs_out, fs_scratch, run, faults, img, call>>

cliVars == <<args, cli_pc, idx, ticket, downloaded_files, all_outputs, stdout, stderr,
            exit>>
fsVars == <<fs_inbox, fs_out, fs_scratch>>

---------------------------------------------------------------------------
(* Bounds *)

\* longest batch of ticket ids given to `read`
MaxBatch == 2
\* most failures of the environment (a request, the compiler, a write, a removal)
\* during one command
MaxFaults == 2
\* number of distinct values of the random scratch suffix
NumSuffix == 1
\* largest byte size of an image or of one of its encodings (compress_image_to_pdf alone)
MaxSize == 4
\* largest pixel width of an image (compress_image_to_pdf alone)
MaxDim == 3
\* the most input files of one merge_pdfs call
MaxInputs == 3
\* the longest text given to _escape_typst
MaxText == 4
\* the most descriptors given to one generate_typst_source call
MaxAttachments == 2

---------------------------------------------------------------------------
(* Sequences and strings *)

Range(s) == {s[i] : i \in 1..Len(s)}

\* only the first of the sequences
FlattenFirstOnly(ss) == IF ss = <<>> THEN <<>> ELSE ss[1]

RECURSIVE Flatten(_)
Flatten(ss) == IF ss = <<>> THEN <<>> ELSE Head(ss) \o Flatten(Tail(ss))

\* str.lower(), on the letters the model's names use
Lower(c) ==
    CASE c = "P" -> "p"
      [] c = "D" -> "d"
      [] c = "F" -> "f"
      [] c = "N" -> "n"
      [] c = "G" -> "g"
      [] OTHER -> c

LowerStr(s) == [i \in 1..Len(s) |-> Lower(s[i])]

\* str.replace(old, new) for a one-character old
ReplaceChar(s, old, new) == [i \in 1..Len(s) |-> IF s[i] = old THEN new ELSE s[i]]

\* str.rfind(c), 1-based; 0 when absent
RFind(s, c) ==
    LET hits == {i \in 1..Len(s) : s[i] = c}
    IN  IF hits = {} THEN 0 ELSE CHOOSE i \in hits : \A j \in hits : j <= i

\* PurePath.name: the final component of a relative path
PathName(s) == SubSeq(s, RFind(s, "/") + 1, Len(s))

\* PurePath.suffix: from the last dot of the name, unless that dot leads or ends it
PathSuffix(s) ==
    LET name == PathName(s)
        i == RFind(name, ".")
    IN  IF 1 < i /\ i < Len(name) THEN SubSeq(name, i, Len(name)) ELSE <<>>

DotPdf == <<".", "p", "d", "f">>
SummaryPdf == <<"s", "u", "m", "m", "a", "r", "y">> \o DotPdf
TicketJson == <<"t", "i", "c", "k", "e", "t", ".", "j", "s", "o", "n">>

\* archiver.py:156
ImageExtensions ==
    { <<".", "j", "p", "g">>, <<".", "j", "p", "e", "g">>, <<".", "p", "n", "g">>,
      <<".", "g", "i", "f">>, <<".", "b", "m", "p">>, <<".", "t", "i", "f", "f">>,
      <<".", "t", "i", "f">>, <<".", "w", "e", "b", "p">> }

---------------------------------------------------------------------------
(* Files *)

NoFile == [fmt |-> "none"]
\* a complete PDF document with these pages
PdfFile(pages, size) == [fmt |-> "pdf", ok |-> TRUE, pages |-> pages, size |-> size]
\* bytes that start as a PDF and do not parse: a damaged upload, a write cut short
BrokenPdf(size) == [fmt |-> "pdf", ok |-> FALSE, pages |-> <<>>, size |-> size]
\* a decodable image; enc150 and enc72 are the byte sizes its two PDF encodings get
ImageFile(id, size, enc150, enc72, width, height) ==
    [fmt |-> "image", ok |-> TRUE, id |-> id, size |-> size,
     enc150 |-> enc150, enc72 |-> enc72, width |-> width, height |-> height]
TextFile(size) == [fmt |-> "text", ok |-> TRUE, size |-> size]
JsonFile(meta) == [fmt |-> "json", ok |-> TRUE, data |-> meta]

NoDir == [exists |-> FALSE, files |-> <<>>]

\* Path.exists() of folder/name: a stored name never holds a slash, so a listed
\* name with a slash (a path into a subfolder that nobody creates) is not found
FileExists(folder, name) == folder.exists /\ name \in DOMAIN folder.files
FileAt(folder, name) == IF FileExists(folder, name) THEN folder.files[name] ELSE NoFile
WriteFile(folder, name, body) ==
    [exists |-> TRUE, files |-> (name :> body) @@ folder.files]
\* Path.unlink(missing_ok=True)
Unlink(folder, name) ==
    [exists |-> folder.exists,
     files |-> IF DOMAIN folder.files \subseteq {name} THEN <<>>
               ELSE [n \in DOMAIN folder.files \ {name} |-> folder.files[n]]]


---------------------------------------------------------------------------
(* Exceptions *)

NoExc == [kind |-> "none", msg |-> "none"]
Exc(kind, msg) == [kind |-> kind, msg |-> msg]

\* isinstance(exc, cls) over the classes that occur: FileNotFoundError and PIL's
\* UnidentifiedImageError derive from OSError; pikepdf.PdfError derives from
\* Exception only; everything derives from Exception
IsInstance(exc, cls) ==
    \/ cls = "Exception"
    \/ exc.kind = cls
    \/ cls = "OSError" /\ exc.kind \in {"FileNotFoundError", "UnidentifiedImageError"}

---------------------------------------------------------------------------
(* File Classifier *)

\* Image.open(path).verify() succeeds
DecodesAsImage(file) == file.fmt = "image" /\ file.ok

\* the first five bytes are %PDF-
HasPdfMagic(file) == file.fmt = "pdf"

\* pikepdf.Pdf.open(path) succeeds
OpensAsPdf(file) == file.fmt = "pdf" /\ file.ok

_is_image_file(name, file) ==
    IF LowerStr(PathSuffix(name)) \in ImageExtensions THEN TRUE
    ELSE IF PathSuffix(name) = <<>> THEN DecodesAsImage(file)
    ELSE FALSE

_is_pdf_file(name, file) ==
    IF LowerStr(PathSuffix(name)) = DotPdf THEN TRUE
    ELSE IF PathSuffix(name) = <<>> THEN HasPdfMagic(file)
    ELSE FALSE

\* round(n / d) as Python rounds a quotient of positive integers: to the nearest
\* integer, a tie to the even one
RoundHalfEven(n, d) ==
    LET q == n \div d
        r == n % d
    IN  IF 2 * r < d THEN q
        ELSE IF 2 * r > d THEN q + 1
        ELSE IF q % 2 = 0 THEN q ELSE q + 1

---------------------------------------------------------------------------
(* Image Compressor *)

DEFAULT_MAX_WIDTH == 800

\* the branch of archiver.py:130: which encoding's size is returned
CompressedSize(original_size, enc150, enc72) ==
    IF enc150 > original_size THEN enc72 ELSE enc150

\* archiver.py:119-122; int() of the float product is taken as the integer quotient
ResizedDims(width, height, max_width) ==
    IF width > max_width
    THEN [width |-> max_width, height |-> (height * max_width) \div width]
    ELSE [width |-> width, height |-> height]

\* compress_image_to_pdf(image_path, output_path, max_width, jpeg_quality): what it
\* raises, what it returns and the file it leaves at output_path
compress_image_to_pdf(file, max_width) ==
    IF ~DecodesAsImage(file)
    THEN [raised |-> Exc("UnidentifiedImageError", "cannot_identify_image"),
          original_size |-> 0, compressed_size |-> 0,
          dims |-> [width |-> 0, height |-> 0], fallback |-> FALSE, pdf |-> NoFile]
    ELSE [raised |-> NoExc,
          original_size |-> file.size,
          compressed_size |-> CompressedSize(file.size, file.enc150, file.enc72),
          dims |-> IF file.enc150 > file.size
                   THEN [width |-> file.width, height |-> file.height]
                   ELSE ResizedDims(file.width, file.height, max_width),
          fallback |-> file.enc150 > file.size,
          pdf |-> PdfFile(<< <<file.id, 1>> >>,
                          CompressedSize(file.size, file.enc150, file.enc72))]


---------------------------------------------------------------------------
(* The helpdesk: what browser.read_ticket can find on a ticket's page *)

TicketIds == {"101", "102", "103", "104", "105", "106", "107"}

NameR == <<"r", ".", "p", "d", "f">>
NameB == <<"b", ".", "p", "d", "f">>
NameP == <<"p", ".", "P", "N", "G">>
NameN == <<"n", ".", "t", "x", "t">>
NameS == <<"s", "/", "p", ".", "p", "n", "g">>
NameY == <<"s", "u", "m", "m", "a", "r", "y">>
NameX == <<"x", ".", "j", "p", "g">>

\* browser.Attachment: the link text and what a GET of its url returns
Attachment(name, body) == [name |-> name, body |-> body]

\* a two-page PDF; a damaged PDF; a wide image; a text file; an image whose name
\* holds a slash; an image without extension named summary; a damaged image
AttR == Attachment(NameR, PdfFile(<< <<"r", 1>>, <<"r", 2>> >>, 114))
AttB == Attachment(NameB, BrokenPdf(7))
AttP == Attachment(NameP, ImageFile("p", 500, 90, 300, 1600, 1200))
AttN == Attachment(NameN, TextFile(12))
AttS == Attachment(NameS, ImageFile("s", 40, 60, 70, 400, 300))
AttY == Attachment(NameY, ImageFile("y", 200, 80, 150, 640, 480))
AttX == Attachment(NameX, TextFile(3))

\* the attachments the helpdesk shows on each ticket's page
Helpdesk(tid) ==
    CASE tid = "103" -> <<AttR, AttP>>
      [] tid = "104" -> <<AttS, AttN, AttR>>
      [] tid = "105" -> <<AttP, AttB>>
      [] tid = "106" -> <<AttY, AttR>>
      [] tid = "107" -> <<AttX>>
      [] OTHER -> <<>>

\* the inbox folders before the command: ticket 102's folder was left without
\* metadata (as in test_missing_ticket_json), no other folder exists
InitialInbox(tid) ==
    IF tid = "102" THEN [exists |-> TRUE, files |-> <<>>]
    ELSE [exists |-> FALSE, files |-> <<>>]

NoTicket == [id |-> "", attachments |-> <<>>]


---------------------------------------------------------------------------
(* Paths and the file system *)

WorkDirs == TicketIds \X (1..NumSuffix)
NoWorkDir == <<>>

\* a scratch directory named by the random suffix alone
WorkDirSuffixOnly(tid, sfx) == <<"103", sfx>>

\* archiver.py:482: temp_dir / f"receipt_{ticket_id}_{uuid4().hex[:8]}"; the suffix
\* has a fixed length, so the name determines the ticket id and the suffix
WorkDir(tid, sfx) == <<tid, sfx>>

\* inbox_dir/<ticket_id>/<name> and temp_dir/receipt_<ticket_id>_<suffix>/<name>
InboxPath(tid, name) == [root |-> "inbox", dir |-> <<tid>>, name |-> name]
ScratchPath(work_dir, name) == [root |-> "scratch", dir |-> work_dir, name |-> name]

\* inbox_dir/<ticket_id>.pdf
OutputPath(tid) == [root |-> "inbox_dir", stem |-> tid, suffix |-> DotPdf]

PathFolder(p) == IF p.root = "inbox" THEN fs_inbox[p.dir[1]] ELSE fs_scratch[p.dir]
ReadPath(p) == FileAt(PathFolder(p), p.name)

---------------------------------------------------------------------------
(* generate_receipt_pdf: the frame of one call *)

NoReport == [type |-> "none"]

IdleRun ==
    [pc |-> "idle", ticket_id |-> "", force |-> FALSE,
     attachment_names |-> <<>>, k |-> 1,
     attachments_info |-> <<>>, attachment_pdfs |-> <<>>, page_descriptions |-> <<>>,
     work_dir |-> NoWorkDir, pending |-> NoExc, cleanup |-> "none",
     total_pages |-> 0, result |-> NoReport, raised |-> NoExc]

\* the call generate_receipt_pdf(tid, config, strings, force=force)
CallFrame(tid, force) == [IdleRun EXCEPT !.pc = "begin", !.ticket_id = tid, !.force = force]

\* the structural errors as two exception classes
StructuralErrorDistinct(folder) ==
    IF ~folder.exists
    THEN [kind |-> "FileNotFoundError", msg |-> "inbox_not_found"]
    ELSE IF ~(folder.exists /\ TicketJson \in DOMAIN folder.files)
    THEN [kind |-> "MissingMetadataError", msg |-> "ticket_json_missing_run_read_first"]
    ELSE [kind |-> "none", msg |-> "none"]

\* archiver.py:447-453: the structural error of a folder, or NoExc
StructuralError(folder) ==
    IF ~folder.exists
    THEN Exc("FileNotFoundError", "inbox_not_found")
    ELSE IF ~FileExists(folder, TicketJson)
    THEN Exc("FileNotFoundError", "ticket_json_missing_run_read_first")
    ELSE NoExc

\* the short-circuit test with the force flag read the wrong way round
ShortCircuitsInverted(out_file, force) == out_file # NoFile /\ force

\* archiver.py:463: the short-circuit test
ShortCircuits(out_file, force) == out_file # NoFile /\ ~force

\* archiver.py:468-472
AlreadyExistsReport(tid) ==
    [type |-> "already_exists", ticket_id |-> tid, path |-> OutputPath(tid),
     hint |-> "use_force"]

\* a structural error that is reported instead of raised
ReportDirect(fr, exc) == [fr EXCEPT !.pc = "returned", !.raised = exc]

\* an exception leaves the function before the try block: nothing to release
RaiseDirect(fr, exc) == [fr EXCEPT !.pc = "raised", !.raised = exc]

\* the try block without its finally clause: an exception skips the removal
TryExitNoFinally(fr, exc) ==
    IF exc = NoExc THEN [fr EXCEPT !.pc = "cleanup", !.pending = exc]
    ELSE [fr EXCEPT !.pc = "raised", !.pending = exc, !.raised = exc]

\* an exception leaves the try block of archiver.py:485-550: the finally clause runs
TryExit(fr, exc) == [fr EXCEPT !.pc = "cleanup", !.pending = exc]

\* the scratch directory made before the checks of archiver.py:447-472
ScratchMadeFirst(scratch, tid) ==
    [scratch EXCEPT ![<<tid, 1>>] = [exists |-> TRUE, files |-> @.files]]

\* the temp directory when the function ends at archiver.py:448, 450 or 468: the
\* mkdir of archiver.py:483 has not been reached
ScratchAtEarlyExit(scratch, tid) == scratch

\* archiver.py:443-483
GenBegin(i) ==
    /\ run[i].pc = "begin"
    /\ LET fr == run[i]
           tid == fr.ticket_id
           folder == fs_inbox[tid]
           err == StructuralError(folder)
           names == FileAt(folder, TicketJson).data.attachments
       IN  IF err # NoExc
           THEN /\ run' = [run EXCEPT ![i] = RaiseDirect(fr, err)]
                /\ fs_scratch' = ScratchAtEarlyExit(fs_scratch, tid)
           ELSE IF ShortCircuits(fs_out[tid], fr.force)
           THEN /\ run' = [run EXCEPT ![i] =
                        [fr EXCEPT !.pc = "returned", !.result = AlreadyExistsReport(tid)]]
                /\ fs_scratch' = ScratchAtEarlyExit(fs_scratch, tid)
           ELSE \E sfx \in 1..NumSuffix :
                /\ run' = [run EXCEPT ![i] =
                        [fr EXCEPT !.pc = IF names = <<>> THEN "cover" ELSE "attachments",
                                   !.attachment_names = names,
                                   !.work_dir = WorkDir(tid, sfx)]]
                \* mkdir(parents=True, exist_ok=True)
                /\ fs_scratch' = [fs_scratch EXCEPT ![WorkDir(tid, sfx)] =
                                      [exists |-> TRUE, files |-> @.files]]
    /\ UNCHANGED <<cliVars, fs_inbox, fs_out, faults, img, call>>

\* archiver.py:496-501 and 520-525
AttachmentInfo(name, original_size, has_compressed, compressed_size, type) ==
    [name |-> name, original_size |-> original_size,
     has_compressed |-> has_compressed, compressed_size |-> compressed_size,
     type |-> type]

\* a report line that names the previous attachment: it is built before the loop
\* variable is read
PageDescriptionStale(name, original_size, compressed_size, type, num_pages) ==
    [name |-> <<>>, original_size |-> original_size,
     compressed_size |-> compressed_size, type |-> type, num_pages |-> num_pages]

\* archiver.py:509-512 and 527-530
PageDescription(name, original_size, compressed_size, type, num_pages) ==
    [name |-> name, original_size |-> original_size,
     compressed_size |-> compressed_size, type |-> type, num_pages |-> num_pages]

\* archiver.py:488-533, one iteration of the attachment loop
GenAttachment(i) ==
    /\ run[i].pc = "attachments"
    /\ LET fr == run[i]
           tid == fr.ticket_id
           name == fr.attachment_names[fr.k]
           folder == fs_inbox[tid]
           file == FileAt(folder, name)
           next == [fr EXCEPT !.k = @ + 1,
                              !.pc = IF fr.k + 1 > Len(fr.attachment_names)
                                     THEN "cover" ELSE "attachments"]
           c == compress_image_to_pdf(file, DEFAULT_MAX_WIDTH)
       IN  IF ~FileExists(folder, name)
           THEN /\ run' = [run EXCEPT ![i] = next]
                /\ UNCHANGED fs_scratch
           ELSE IF _is_pdf_file(name, file)
           THEN /\ run' = [run EXCEPT ![i] =
                    IF OpensAsPdf(file)
                    THEN [next EXCEPT
                            !.attachments_info =
                                Append(@, AttachmentInfo(name, file.size, FALSE, 0, "pdf")),
                            !.attachment_pdfs = Append(@, InboxPath(tid, name)),
                            !.page_descriptions =
                                Append(@, PageDescription(name, file.size, 0, "pdf",
                                                          Len(file.pages)))]
                    ELSE TryExit([fr EXCEPT !.attachments_info =
                                Append(@, AttachmentInfo(name, file.size, FALSE, 0, "pdf"))],
                            Exc("PdfError", "unreadable_pdf"))]
                /\ UNCHANGED fs_scratch
           ELSE IF _is_image_file(name, file)
           THEN IF c.raised # NoExc
                THEN /\ run' = [run EXCEPT ![i] = TryExit(fr, c.raised)]
                     /\ UNCHANGED fs_scratch
                ELSE IF ~fs_scratch[fr.work_dir].exists
                \* img.save into a directory that is gone
                THEN /\ run' = [run EXCEPT ![i] =
                            TryExit(fr, Exc("FileNotFoundError", "no_such_directory"))]
                     /\ UNCHANGED fs_scratch
                ELSE /\ run' = [run EXCEPT ![i] =
                        [next EXCEPT
                            !.attachments_info =
                                Append(@, AttachmentInfo(name, c.original_size, TRUE,
                                                         c.compressed_size, "image")),
                            !.attachment_pdfs =
                                Append(@, ScratchPath(fr.work_dir, name \o DotPdf)),
                            !.page_descriptions =
                                Append(@, PageDescription(name, c.original_size,
                                                          c.compressed_size, "image", 1))]]
                     /\ fs_scratch' = [fs_scratch EXCEPT ![fr.work_dir] =
                                           WriteFile(@, name \o DotPdf, c.pdf)]
           ELSE /\ run' = [run EXCEPT ![i] = next]
                /\ UNCHANGED fs_scratch
    /\ UNCHANGED <<cliVars, fs_inbox, fs_out, faults, img, call>>


LogoName == <<"l", "o", "g", "o", ".", "p", "n", "g">>
CoverPage == <<"cover", 1>>

\* work_dir / f"archive_{uuid4().hex[:8]}.typ"
TypName(sfx) == <<"archive_", sfx, ".typ">>

\* how the run of the compiler can end: exit status 0 with the PDF written, a
\* nonzero exit status, or subprocess.run raising because typst is not installed
CompilerOutcomes == {"compiled", "nonzero_exit", "not_installed"}

\* a source file that is removed only after a compilation that succeeded
TypstCleanupOnSuccess(folder, name, outcome) ==
    IF outcome = "compiled" THEN Unlink(folder, name) ELSE folder

\* archiver.py:385-386: the finally clause of compile_typst
TypstCleanup(folder, name, outcome) == Unlink(folder, name)

\* compile_typst(typst_source, output_path, work_dir) with output_path =
\* work_dir/summary.pdf, the compiler ending as `outcome` and printing `diag` on
\* standard error: what it raises, with which message, and the work_dir it leaves
compile_typst(folder, sfx, outcome, diag) ==
    LET written == WriteFile(folder, TypName(sfx), TextFile(1))
        ran == IF outcome = "compiled"
               THEN WriteFile(written, SummaryPdf, PdfFile(<<CoverPage>>, 1))
               ELSE written
    IN  [raised |-> CASE outcome = "nonzero_exit" ->
                            Exc("RuntimeError", "typst_compilation_failed")
                      [] outcome = "not_installed" ->
                            Exc("FileNotFoundError", "typst_not_found")
                      [] OTHER -> NoExc,
         message |-> IF outcome = "nonzero_exit"
                     THEN <<"Typst compilation failed:", diag>> ELSE <<>>,
         typ_path |-> TypName(sfx),
         folder |-> TypstCleanup(ran, TypName(sfx), outcome)]

\* how archiver.py:535-544 can end: the logo copy fails, the compiler is not
\* installed (subprocess.run raises), exits nonzero, or writes the cover
CoverOutcomes(logo) ==
    CompilerOutcomes \cup (IF logo THEN {"logo_copy_failed"} ELSE {})

\* archiver.py:535-544: logo copy, generate_typst_source, compile_typst;
\* logo: config.logo_path is set and the file exists
GenCover(i) ==
    /\ run[i].pc = "cover"
    /\ \E logo \in BOOLEAN : \E outcome \in CoverOutcomes(logo) :
         LET fr == run[i]
             withLogo == IF logo
                         THEN WriteFile(fs_scratch[fr.work_dir], LogoName, TextFile(1))
                         ELSE fs_scratch[fr.work_dir]
             gone == ~fs_scratch[fr.work_dir].exists
         IN  \* shutil.copy2 into a directory that is gone raises
             /\ (logo /\ gone) => outcome = "logo_copy_failed"
             /\ faults' = faults + (IF outcome = "compiled" \/ (logo /\ gone) THEN 0 ELSE 1)
             /\ faults' <= MaxFaults
             /\ CASE outcome = "logo_copy_failed" ->
                    /\ run' = [run EXCEPT ![i] =
                                 TryExit(fr, Exc("OSError", "logo_copy_failed"))]
                    /\ UNCHANGED fs_scratch
               [] OTHER ->
                    LET c == compile_typst(withLogo, 1, outcome, "diagnostic")
                    IN  /\ run' = [run EXCEPT ![i] =
                                 IF c.raised # NoExc THEN TryExit(fr, c.raised)
                                 ELSE [fr EXCEPT !.pc = "merge"]]
                        /\ fs_scratch' = [fs_scratch EXCEPT ![fr.work_dir] = c.folder]
    /\ UNCHANGED <<cliVars, fs_inbox, fs_out, img, call>>

\* how merged.save(output_path) can end: the complete file is in place; the file
\* could not be opened for writing; the write stopped part-way
SaveOutcomes == {"saved", "refused", "cut_short"}

\* the first input of merge_pdfs that pikepdf.Pdf.open rejects, 0 when none
FirstUnreadable(files) ==
    LET bad == {j \in 1..Len(files) : ~OpensAsPdf(files[j])}
    IN  IF bad = {} THEN 0 ELSE CHOOSE j \in bad : \A l \in bad : j <= l

\* merge_pdfs(pdf_paths, output_path) on the files found at pdf_paths, the save
\* ending as `outcome`: what it raises, what it returns, what is at output_path after
merge_pdfs(files, old_output, outcome) ==
    LET pages == Flatten([j \in 1..Len(files) |-> files[j].pages])
        size == Len(pages)
        bad == FirstUnreadable(files)
    IN  IF bad # 0
        THEN [raised |-> IF files[bad] = NoFile
                         THEN Exc("FileNotFoundError", "no_such_file")
                         ELSE Exc("PdfError", "unreadable_pdf"),
              total_pages |-> 0, output |-> old_output]
        ELSE IF outcome = "saved"
        THEN [raised |-> NoExc, total_pages |-> Len(pages),
              output |-> PdfFile(pages, size)]
        ELSE IF outcome = "refused"
        THEN [raised |-> Exc("OSError", "save_failed"), total_pages |-> 0,
              output |-> old_output]
        ELSE [raised |-> Exc("OSError", "save_failed"), total_pages |-> 0,
              output |-> BrokenPdf(0)]

\* archiver.py:546-548
GenMerge(i) ==
    /\ run[i].pc = "merge"
    /\ LET fr == run[i]
           tid == fr.ticket_id
           all_pdfs == <<ScratchPath(fr.work_dir, SummaryPdf)>> \o fr.attachment_pdfs
           files == [j \in 1..Len(all_pdfs) |-> ReadPath(all_pdfs[j])]
       IN  \E outcome \in SaveOutcomes :
             LET m == merge_pdfs(files, fs_out[tid], outcome)
             IN  /\ faults' = faults + (IF outcome = "saved" THEN 0 ELSE 1)
                 /\ faults' <= MaxFaults
                 /\ outcome # "saved" => FirstUnreadable(files) = 0
                 /\ fs_out' = [fs_out EXCEPT ![tid] = m.output]
                 /\ run' = [run EXCEPT ![i] =
                        TryExit([fr EXCEPT !.total_pages = m.total_pages], m.raised)]
    /\ UNCHANGED <<cliVars, fs_inbox, fs_scratch, img, call>>

\* archiver.py:564-578
Report(fr) ==
    [type |-> "generated", ticket_id |-> fr.ticket_id, path |-> OutputPath(fr.ticket_id),
     total_pages |-> fr.total_pages,
     lines |-> <<[page_num |-> 1, desc |-> "summary"]>> \o
               [j \in 1..Len(fr.page_descriptions) |->
                   [page_num |-> j + 1, desc |-> fr.page_descriptions[j]]]]

\* archiver.py:549-578: the finally clause, then the pending exception or the report
GenCleanup(i) ==
    /\ run[i].pc = "cleanup"
    /\ LET fr == run[i]
       IN  \E removed \in BOOLEAN :
             \* shutil.rmtree(work_dir, ignore_errors=True)
             /\ faults' = faults + (IF removed THEN 0 ELSE 1)
             /\ faults' <= MaxFaults
             /\ fs_scratch' = IF removed
                              THEN [fs_scratch EXCEPT ![fr.work_dir] = NoDir]
                              ELSE fs_scratch
             /\ run' = [run EXCEPT ![i] =
                    IF fr.pending # NoExc
                    THEN [fr EXCEPT !.pc = "raised", !.raised = fr.pending,
                                    !.cleanup = IF removed THEN "removed" ELSE "failed"]
                    ELSE [fr EXCEPT !.pc = "returned", !.result = Report(fr),
                                    !.cleanup = IF removed THEN "removed" ELSE "failed"]]
    /\ UNCHANGED <<cliVars, fs_inbox, fs_out, img, call>>


---------------------------------------------------------------------------
(* browser.download_attachments *)

\* browser.py:319
SafeName(name) == ReplaceChar(ReplaceChar(name, "/", "_"), "\\", "_")

\* browser.py:311-328: the folder after the download loop over atts[from..]; the
\* requests at the positions in `failed` raise (caught, a warning is printed)
RECURSIVE DownloadLoop(_, _, _, _)
DownloadLoop(folder, atts, from, failed) ==
    IF from > Len(atts) THEN folder
    ELSE DownloadLoop(IF from \in failed THEN folder
                      ELSE WriteFile(folder, SafeName(atts[from].name), atts[from].body),
                      atts, from + 1, failed)

\* browser.py:309, 326: the returned list, the stored paths in download order
RECURSIVE DownloadedList(_, _, _)
DownloadedList(atts, from, failed) ==
    IF from > Len(atts) THEN <<>>
    ELSE (IF from \in failed THEN <<>> ELSE <<SafeName(atts[from].name)>>)
         \o DownloadedList(atts, from + 1, failed)

\* browser.py:332-345 (the fields the archiver's attachment handling reads)
Metadata(t) == [id |-> t.id, attachments |-> [j \in 1..Len(t.attachments) |-> t.attachments[j].name]]

\* browser.py:298-349: the folder download_attachments leaves
download_attachments(folder, t, failed) ==
    IF t.attachments = <<>> THEN folder
    ELSE WriteFile(DownloadLoop([exists |-> TRUE, files |-> folder.files],
                                t.attachments, 1, failed),
                   TicketJson, JsonFile(Metadata(t)))

---------------------------------------------------------------------------
(* cli.read *)

NumTickets == Len(args.ticket_ids)

\* cli.py:137-138; the page load can fail (a Playwright error)
ReadTicket ==
    /\ cli_pc = "read_ticket"
    /\ idx <= NumTickets
    /\ \E loaded \in BOOLEAN :
         IF loaded
         THEN /\ ticket' = [id |-> args.ticket_ids[idx],
                            attachments |-> Helpdesk(args.ticket_ids[idx])]
              /\ cli_pc' = "download"
              /\ UNCHANGED <<exit, faults>>
         ELSE /\ faults < MaxFaults
              /\ faults' = faults + 1
              /\ exit' = Exc("PlaywrightError", "page_load_failed")
              /\ cli_pc' = "exited"
              /\ UNCHANGED ticket
    /\ UNCHANGED <<args, idx, downloaded_files, all_outputs, stdout, stderr, fsVars, run,
                   img, call>>

\* cli.py:141: whether read calls download_attachments
Downloads(no_download, t) == ~no_download /\ t.attachments # <<>>

\* cli.py:153: whether read calls generate_receipt_pdf
Generates(no_download, no_pdf) == ~no_download /\ ~no_pdf

\* cli.py:136, 164: the next loop iteration
NextTicket ==
    /\ idx' = idx + 1
    /\ cli_pc' = "read_ticket"
    /\ ticket' = NoTicket
    /\ downloaded_files' = <<>>

\* cli.py:140-156: download, collect the detail text, call the archiver
Download ==
    /\ cli_pc = "download"
    /\ \E failed \in SUBSET (1..Len(ticket.attachments)) :
         LET tid == ticket.id
             does == Downloads(args.no_download, ticket)
             files == IF does THEN DownloadedList(ticket.attachments, 1, failed) ELSE <<>>
         IN  /\ does \/ failed = {}
             /\ faults' = faults + Cardinality(failed)
             /\ faults' <= MaxFaults
             /\ fs_inbox' = IF does
                            THEN [fs_inbox EXCEPT ![tid] =
                                     download_attachments(@, ticket, failed)]
                            ELSE fs_inbox
             /\ all_outputs' = Append(all_outputs, [ticket_id |-> tid, downloaded |-> files])
             /\ IF Generates(args.no_download, args.no_pdf)
                THEN /\ run' = [run EXCEPT ![idx] = CallFrame(tid, args.force)]
                     /\ cli_pc' = "generate"
                     /\ downloaded_files' = files
                     /\ UNCHANGED <<idx, ticket>>
                ELSE /\ NextTicket
                     /\ UNCHANGED run
    /\ UNCHANGED <<args, stdout, stderr, exit, fs_out, fs_scratch, img, call>>

\* a handler that names RuntimeError only
CaughtRuntimeOnly(exc) == IsInstance(exc, "RuntimeError")

\* cli.py:158: the exceptions the loop body catches
Caught(exc) == IsInstance(exc, "FileNotFoundError") \/ IsInstance(exc, "RuntimeError")

\* the frame after its call has ended and the caller has taken the result
Ended(fr) ==
    [IdleRun EXCEPT !.pc = "ended", !.ticket_id = fr.ticket_id, !.force = fr.force,
                    !.result = fr.result, !.raised = fr.raised]

\* cli.py:156-162, 167-172: the archiver returned or raised
AfterGenerate ==
    /\ cli_pc = "generate"
    /\ run[idx].pc \in {"returned", "raised"}
    /\ LET fr == run[idx]
       IN  /\ run' = [run EXCEPT ![idx] = Ended(fr)]
           /\ IF fr.pc = "returned"
              THEN /\ stderr' = [stderr EXCEPT ![idx] = "result"]
                   /\ NextTicket
                   /\ UNCHANGED exit
              ELSE IF Caught(fr.raised)
              THEN /\ stderr' = [stderr EXCEPT ![idx] = "generation_failed"]
                   /\ NextTicket
                   /\ UNCHANGED exit
              ELSE /\ exit' = fr.raised
                   /\ cli_pc' = "exited"
                   /\ UNCHANGED <<stderr, idx, ticket, downloaded_files>>
    /\ UNCHANGED <<args, all_outputs, stdout, fsVars, faults, img, call>>

\* cli.py:164-165: the loop is over
Finish ==
    /\ cli_pc = "read_ticket"
    /\ idx > NumTickets
    /\ cli_pc' = "done"
    \* click.echo("\n\n".join(all_outputs))
    /\ stdout' = all_outputs
    /\ UNCHANGED <<args, idx, ticket, downloaded_files, all_outputs, stderr, exit,
                   fsVars, run, faults, img, call>>

---------------------------------------------------------------------------
(* The `read` command on a file system that holds no receipt yet *)

NoImg == [pc |-> "off"]
NoCall == [pc |-> "off"]

Batches == UNION {[1..n -> TicketIds] : n \in 1..MaxBatch}

Init ==
    /\ args \in [ticket_ids : Batches, no_download : BOOLEAN, no_pdf : BOOLEAN,
                 force : BOOLEAN]
    /\ cli_pc = "read_ticket"
    /\ idx = 1
    /\ ticket = NoTicket
    /\ downloaded_files = <<>>
    /\ all_outputs = <<>>
    /\ stdout = <<>>
    /\ stderr = [i \in 1..NumTickets |-> "none"]
    /\ exit = NoExc
    /\ fs_inbox = [t \in TicketIds |-> InitialInbox(t)]
    /\ fs_out = [t \in TicketIds |-> NoFile]
    /\ fs_scratch = [d \in WorkDirs |-> NoDir]
    /\ run = [i \in 1..NumTickets |-> IdleRun]
    /\ faults = 0
    /\ img = NoImg
    /\ call = NoCall

Gen == \E i \in 1..MaxBatch :
    /\ i \in DOMAIN run
    /\ \/ GenBegin(i)
       \/ GenAttachment(i)
       \/ GenCover(i)
       \/ GenMerge(i)
       \/ GenCleanup(i)

Next == ReadTicket \/ Download \/ AfterGenerate \/ Finish \/ Gen

Spec == Init /\ [][Next]_vars


---------------------------------------------------------------------------
(* Calls of generate_receipt_pdf that overlap in time: two processes, each  *)
(* archiving one ticket whose attachments were downloaded before            *)

OverlapIds == {"103", "105", "106"}

\* the inbox folder of a ticket after `read --no-pdf`
Ingested(tid) ==
    download_attachments(InitialInbox(tid),
                         [id |-> tid, attachments |-> Helpdesk(tid)], {})

InitOverlap ==
    /\ args = [ticket_ids |-> <<>>, no_download |-> TRUE, no_pdf |-> TRUE, force |-> FALSE]
    /\ cli_pc = "off"
    /\ idx = 1
    /\ ticket = NoTicket
    /\ downloaded_files = <<>>
    /\ all_outputs = <<>>
    /\ stdout = <<>>
    /\ stderr = <<>>
    /\ exit = NoExc
    /\ fs_inbox = [t \in TicketIds |-> Ingested(t)]
    /\ fs_out = [t \in TicketIds |-> NoFile]
    /\ fs_scratch = [d \in WorkDirs |-> NoDir]
    /\ \E t1 \in OverlapIds, t2 \in OverlapIds, f1 \in BOOLEAN, f2 \in BOOLEAN :
         run = <<CallFrame(t1, f1), CallFrame(t2, f2)>>
    /\ faults = 0
    /\ img = NoImg
    /\ call = NoCall

NextOverlap == Gen

SpecOverlap == InitOverlap /\ [][NextOverlap]_vars

---------------------------------------------------------------------------
(* one generate_receipt_pdf call on what an earlier session left behind *)

ReceiptIds == {"103", "104", "105", "106", "107"}

\* the ticket's folder: missing, without ticket.json, or as `read --no-pdf` leaves it
LeftFolders(tid) == {NoDir, [exists |-> TRUE, files |-> <<>>], Ingested(tid)}

\* the ticket's output: missing or a receipt written before
LeftOutputs == {NoFile, PdfFile(<< <<"old", 1>> >>, 9)}

InitReceipt ==
    /\ args = [ticket_ids |-> <<>>, no_download |-> TRUE, no_pdf |-> TRUE, force |-> FALSE]
    /\ cli_pc = "off"
    /\ idx = 1
    /\ ticket = NoTicket
    /\ downloaded_files = <<>>
    /\ all_outputs = <<>>
    /\ stdout = <<>>
    /\ stderr = <<>>
    /\ exit = NoExc
    /\ \E tid \in ReceiptIds, force \in BOOLEAN :
         /\ \E folder \in LeftFolders(tid) :
              fs_inbox = [t \in TicketIds |-> IF t = tid THEN folder ELSE InitialInbox(t)]
         /\ \E out \in LeftOutputs :
              fs_out = [t \in TicketIds |-> IF t = tid THEN out ELSE NoFile]
         /\ run = <<CallFrame(tid, force)>>
    /\ fs_scratch = [d \in WorkDirs |-> NoDir]
    /\ faults = 0
    /\ img = NoImg
    /\ call = NoCall

NextReceipt == Gen

SpecReceipt == InitReceipt /\ [][NextReceipt]_vars

---------------------------------------------------------------------------
(* compress_image_to_pdf taken alone, on every image within the bounds *)

Images ==
    {ImageFile("i", size, enc150, enc72, width, height) :
        size \in 1..MaxSize, enc150 \in 1..MaxSize, enc72 \in 1..MaxSize,
        width \in 1..MaxDim, height \in 1..MaxDim}

InitCompress ==
    /\ args = [ticket_ids |-> <<>>, no_download |-> TRUE, no_pdf |-> TRUE, force |-> FALSE]
    /\ cli_pc = "off"
    /\ idx = 1
    /\ ticket = NoTicket
    /\ downloaded_files = <<>>
    /\ all_outputs = <<>>
    /\ stdout = <<>>
    /\ stderr = <<>>
    /\ exit = NoExc
    /\ fs_inbox = [t \in TicketIds |-> NoDir]
    /\ fs_out = [t \in TicketIds |-> NoFile]
    /\ fs_scratch = [d \in WorkDirs |-> NoDir]
    /\ run = <<>>
    /\ faults = 0
    /\ img \in [pc : {"call"}, file : Images, max_width : 1..MaxDim, result : {NoReport}]
    /\ call = NoCall

\* the call compress_image_to_pdf(image_path, output_path, max_width, jpeg_quality)
Compress ==
    /\ img.pc = "call"
    /\ img' = [img EXCEPT !.pc = "done",
                          !.result = compress_image_to_pdf(img.file, img.max_width)]
    /\ UNCHANGED <<cliVars, fsVars, run, faults, call>>

NextCompress == Compress

SpecCompress == InitCompress /\ [][NextCompress]_vars

---------------------------------------------------------------------------
(* The helper functions taken alone, each on every input within the bounds *)

\* every variable but `call` at rest
Quiet ==
    /\ args = [ticket_ids |-> <<>>, no_download |-> TRUE, no_pdf |-> TRUE, force |-> FALSE]
    /\ cli_pc = "off"
    /\ idx = 1
    /\ ticket = NoTicket
    /\ downloaded_files = <<>>
    /\ all_outputs = <<>>
    /\ stdout = <<>>
    /\ stderr = <<>>
    /\ exit = NoExc
    /\ fs_inbox = [t \in TicketIds |-> NoDir]
    /\ fs_out = [t \in TicketIds |-> NoFile]
    /\ fs_scratch = [d \in WorkDirs |-> NoDir]
    /\ run = <<>>
    /\ faults = 0
    /\ img = NoImg

QuietVars == <<cliVars, fsVars, run, faults, img>>

\* the sequences over S of length at most n
SeqsUpTo(S, n) == UNION {[1..m -> S] : m \in 0..n}

\* the input files of merge_pdfs: documents of one, two and three pages, and a
\* damaged one
MergeInputs ==
    {PdfFile(<< <<"a", 1>> >>, 1),
     PdfFile(<< <<"b", 1>>, <<"b", 2>> >>, 2),
     PdfFile(<< <<"c", 1>>, <<"c", 2>>, <<"c", 3>> >>, 3),
     BrokenPdf(1)}

InitMerge ==
    /\ Quiet
    /\ call \in [pc : {"call"}, fn : {"merge_pdfs"},
                 files : SeqsUpTo(MergeInputs, MaxInputs),
                 old_output : {NoFile, PdfFile(<< <<"o", 1>> >>, 1)},
                 result : {NoReport}]

\* the call merge_pdfs(pdf_paths, output_path)
Merge ==
    /\ call.pc = "call"
    /\ call.fn = "merge_pdfs"
    /\ \E outcome \in SaveOutcomes :
         /\ outcome # "saved" => FirstUnreadable(call.files) = 0
         /\ call' = [call EXCEPT !.pc = "done",
                        !.result = merge_pdfs(call.files, call.old_output, outcome)]
    /\ UNCHANGED QuietVars

NextMerge == Merge

SpecMerge == InitMerge /\ [][NextMerge]_vars

\* what the compiler can print on standard error
Diagnostics == {"", "error: unknown variable", "error: file not found", "warning"}

\* the work_dir before the call: absent, or holding any of a copied logo, a
\* converted image and an earlier summary.pdf
CompileFolders ==
    {NoDir} \cup
    {[exists |-> TRUE, files |-> fs] :
        fs \in UNION {[names -> {PdfFile(<< <<"p", 1>> >>, 1)}] :
                        names \in SUBSET {LogoName, NameP \o DotPdf, SummaryPdf}}}

InitCompile ==
    /\ Quiet
    /\ call \in [pc : {"call"}, fn : {"compile_typst"}, folder : CompileFolders,
                 sfx : 1..NumSuffix, diag : Diagnostics, outcome : {"none"},
                 result : {NoReport}]

\* the call compile_typst(typst_source, output_path, work_dir)
Compile ==
    /\ call.pc = "call"
    /\ call.fn = "compile_typst"
    /\ \E outcome \in CompilerOutcomes :
         call' = [call EXCEPT !.pc = "done", !.outcome = outcome,
                     !.result = compile_typst(call.folder, call.sfx, outcome, call.diag)]
    /\ UNCHANGED QuietVars

NextCompile == Compile

SpecCompile == InitCompile /\ [][NextCompile]_vars

---------------------------------------------------------------------------
(* config.load_config: where the password comes from *)

Whitespace == {" ", "\t", "\n"}

\* str.strip()
RECURSIVE Strip(_)
Strip(str) ==
    IF str = <<>> THEN <<>>
    ELSE IF Head(str) \in Whitespace THEN Strip(Tail(str))
    ELSE IF str[Len(str)] \in Whitespace THEN Strip(SubSeq(str, 1, Len(str) - 1))
    ELSE str

\* a value that may be absent: os.environ.get(...) returning None, a key that the
\* osticket section does not have
Absent == [set |-> FALSE, value |-> <<>>]
Present(value) == [set |-> TRUE, value |-> value]

\* `not password` is false
Truthy(password) == password.set /\ password.value # <<>>

\* the password field always wins over the environment
FromConfigAlways(password, osticket_data) ==
    IF osticket_data.password.set THEN osticket_data.password ELSE password

\* config.py:138-139
FromConfig(password, osticket_data) ==
    IF ~Truthy(password) /\ osticket_data.password.set
    THEN osticket_data.password ELSE password

\* config.py:141-148: secrets: whether the file exists, its text, and what gpg does
\* with it (gpg_ok: exit status 0, gpg_out: its standard output)
FromSecrets(password, osticket_data, secrets) ==
    IF ~(~Truthy(password) /\ osticket_data.secrets_file.set)
    THEN [raised |-> NoExc, password |-> password, consulted |-> {}]
    ELSE IF ~secrets.exists
    THEN [raised |-> Exc("FileNotFoundError", "secrets_file_not_found"),
          password |-> password, consulted |-> {"exists"}]
    ELSE IF PathSuffix(osticket_data.secrets_file.value) = <<".", "g", "p", "g">>
    THEN IF secrets.gpg_ok
         THEN [raised |-> NoExc, password |-> Present(Strip(secrets.gpg_out)),
               consulted |-> {"exists", "gpg"}]
         ELSE [raised |-> Exc("RuntimeError", "failed_to_decrypt"),
               password |-> password, consulted |-> {"exists", "gpg"}]
    ELSE [raised |-> NoExc, password |-> Present(Strip(secrets.text)),
          consulted |-> {"exists", "read_text"}]

\* config.py:133-155 of load_config: what it raises, or the password of the
\* OSTicketConfig it returns, and what it did with the secrets file
load_config(environ, osticket_data, secrets) ==
    LET p2 == FromConfig(environ, osticket_data)
        r == FromSecrets(p2, osticket_data, secrets)
    IN  IF r.raised # NoExc THEN r
        ELSE IF ~Truthy(r.password)
        THEN [raised |-> Exc("ValueError", "no_password_configured"),
              password |-> r.password, consulted |-> r.consulted]
        ELSE r

SecretsTxt == <<"s", ".", "t", "x", "t">>
SecretsGpg == <<"s", ".", "g", "p", "g">>

\* OSTICKET_PASSWORD: unset, empty, set
Environs == {Absent, Present(<<>>), Present(<<"e">>)}

\* the osticket section: password absent, empty or set; secrets_file absent, a
\* plain-text file or a GPG-encrypted one
OsticketDatas ==
    [password : {Absent, Present(<<>>), Present(<<"c">>)},
     secrets_file : {Absent, Present(SecretsTxt), Present(SecretsGpg)}]

\* the secrets file: missing, or with a password followed by a newline, or with
\* nothing but a newline; gpg decrypting it or failing
SecretsFiles ==
    [exists : BOOLEAN, text : {<<"s", "\n">>, <<"\n">>}, gpg_ok : BOOLEAN,
     gpg_out : {<<"g", "\n">>}]

InitConfig ==
    /\ Quiet
    /\ call \in [pc : {"call"}, fn : {"load_config"}, environ : Environs,
                 osticket_data : OsticketDatas, secrets : SecretsFiles,
                 result : {NoReport}]

\* the call load_config(config_path, work_dir)
LoadConfig ==
    /\ call.pc = "call"
    /\ call.fn = "load_config"
    /\ call' = [call EXCEPT !.pc = "done",
                   !.result = load_config(call.environ, call.osticket_data, call.secrets)]
    /\ UNCHANGED QuietVars

NextConfig == LoadConfig

SpecConfig == InitConfig /\ [][NextConfig]_vars

---------------------------------------------------------------------------
(* archiver.next_sequential_number *)

StartsWith(str, prefix) ==
    Len(str) >= Len(prefix) /\ SubSeq(str, 1, Len(prefix)) = prefix
EndsWith(str, suffix) ==
    Len(str) >= Len(suffix) /\ SubSeq(str, Len(str) - Len(suffix) + 1, Len(str)) = suffix

\* str.split(sep) for a one-character sep
RECURSIVE Split(_, _)
Split(str, sep) ==
    LET hits == {i \in 1..Len(str) : str[i] = sep}
        first == CHOOSE i \in hits : \A j \in hits : i <= j
    IN  IF hits = {} THEN <<str>>
        ELSE <<SubSeq(str, 1, first - 1)>> \o Split(SubSeq(str, first + 1, Len(str)), sep)

Digits == {"0", "1", "2", "3", "4", "5", "6", "7", "8", "9"}

DigitValue(c) ==
    CASE c = "0" -> 0 [] c = "1" -> 1 [] c = "2" -> 2 [] c = "3" -> 3 [] c = "4" -> 4
      [] c = "5" -> 5 [] c = "6" -> 6 [] c = "7" -> 7 [] c = "8" -> 8 [] OTHER -> 9

\* int(str) for a string of letters and digits: its value, or -1 for ValueError
RECURSIVE ParseInt(_)
ParseInt(str) ==
    IF str = <<>> \/ \E i \in 1..Len(str) : str[i] \notin Digits THEN -1
    ELSE IF Len(str) = 1 THEN DigitValue(str[1])
    ELSE 10 * ParseInt(SubSeq(str, 1, Len(str) - 1)) + DigitValue(str[Len(str)])

\* PurePath.stem: the name without its suffix
PathStem(str) == SubSeq(PathName(str), 1, Len(PathName(str)) - Len(PathSuffix(str)))

\* a glob that does not look at the date prefix: *_*_*.pdf
GlobMatchesAnyDate(date_prefix, name) ==
    /\ EndsWith(name, DotPdf)
    /\ Len(Split(SubSeq(name, 1, Len(name) - Len(DotPdf)), "_")) >= 3

\* archiver.py:57: name matches the glob f"{date_prefix}_*_*.pdf"
GlobMatches(date_prefix, name) ==
    LET head == date_prefix \o <<"_">>
    IN  /\ StartsWith(name, head)
        /\ EndsWith(name, DotPdf)
        /\ Len(name) >= Len(head) + 1 + Len(DotPdf)
        /\ "_" \in Range(SubSeq(name, Len(head) + 1, Len(name) - Len(DotPdf)))

SetMax(S) == CHOOSE x \in S : \A y \in S : y <= x

\* next_sequential_number(target_dir, date_prefix); dir: whether target_dir exists
\* and the names in it
next_sequential_number(dir, date_prefix) ==
    IF ~dir.exists THEN 1
    ELSE LET matched == {n \in dir.names : GlobMatches(date_prefix, n)}
             nums == {ParseInt(Split(PathStem(n), "_")[2]) :
                        n \in {m \in matched : Len(Split(PathStem(m), "_")) >= 2}}
         IN  SetMax({0} \cup (nums \ {-1})) + 1

Date1 == <<"2", "0", "2", "6", "0", "1", "0", "3">>
Date2 == <<"2", "0", "2", "6", "0", "1", "0", "4">>

\* the files a receipts directory can hold, with the date prefix and the sequence
\* number each was named from (nn 0: none, the name is not <date>_<NN>_<label>.pdf
\* with a numeric NN)
ArchiveFiles ==
    {[name |-> <<"2", "0", "2", "6", "0", "1", "0", "3", "_", "0", "1", "_", "r", "e", "n", "t", ".", "p", "d", "f">>,
      date |-> Date1, nn |-> 1],
     [name |-> <<"2", "0", "2", "6", "0", "1", "0", "3", "_", "0", "2", "_", "c", "a", "t", "e", "r", "i", "n", "g", "_", "3", "3", "9", ".", "p", "d", "f">>,
      date |-> Date1, nn |-> 2],
     [name |-> <<"2", "0", "2", "6", "0", "1", "0", "3", "_", "1", "0", "_", "a", ".", "p", "d", "f">>,
      date |-> Date1, nn |-> 10],
     [name |-> <<"2", "0", "2", "6", "0", "1", "0", "3", "_", "x", "x", "_", "t", "e", "s", "t", ".", "p", "d", "f">>,
      date |-> Date1, nn |-> 0],
     [name |-> <<"2", "0", "2", "6", "0", "1", "0", "3", "_", "_", "x", ".", "p", "d", "f">>,
      date |-> Date1, nn |-> 0],
     [name |-> <<"2", "0", "2", "6", "0", "1", "0", "3", "_", "0", "5", ".", "p", "d", "f">>,
      date |-> Date1, nn |-> 0],
     [name |-> <<"2", "0", "2", "6", "0", "1", "0", "3", "_", "0", "4", "_", "b", ".", "t", "x", "t">>,
      date |-> Date1, nn |-> 0],
     [name |-> <<"2", "0", "2", "6", "0", "1", "0", "4", "_", "0", "7", "_", "r", "e", "n", "t", ".", "p", "d", "f">>,
      date |-> Date2, nn |-> 7]}

ArchiveDirs ==
    {[exists |-> FALSE, names |-> {}]} \cup
    {[exists |-> TRUE, names |-> {f.name : f \in fs}] : fs \in SUBSET ArchiveFiles}

InitSequence ==
    /\ Quiet
    /\ call \in [pc : {"call"}, fn : {"next_sequential_number"}, dir : ArchiveDirs,
                 date_prefix : {Date1, Date2}, result : {0}]

\* the call next_sequential_number(target_dir, date_prefix)
NextSequentialNumber ==
    /\ call.pc = "call"
    /\ call.fn = "next_sequential_number"
    /\ call' = [call EXCEPT !.pc = "done",
                   !.result = next_sequential_number(call.dir, call.date_prefix)]
    /\ UNCHANGED QuietVars

NextSequence == NextSequentialNumber

SpecSequence == InitSequence /\ [][NextSequence]_vars

---------------------------------------------------------------------------
(* archiver.infer_label *)

\* str.find(sub), 1-based; 0 when absent
Find(str, sub) ==
    LET hits == {i \in 1..(Len(str) - Len(sub) + 1) :
                    SubSeq(str, i, i + Len(sub) - 1) = sub}
    IN  IF hits = {} THEN 0 ELSE CHOOSE i \in hits : \A j \in hits : i <= j

IsDigits(str, lo, hi) ==
    Len(str) \in lo..hi /\ \A i \in 1..Len(str) : str[i] \in Digits

\* str, whole, matches \s*\d{1,2}\.\d{1,2}\.(\d{2,4})?\s*
MatchesDate(str) ==
    LET parts == Split(Strip(str), ".")
    IN  /\ Len(parts) = 3
        /\ IsDigits(parts[1], 1, 2)
        /\ IsDigits(parts[2], 1, 2)
        /\ (parts[3] = <<>> \/ IsDigits(parts[3], 2, 4))

\* re.sub(r"\s*\d{1,2}\.\d{1,2}\.(\d{2,4})?\s*$", "", str): the leftmost match goes
RemoveTrailingDate(str) ==
    LET starts == {i \in 1..Len(str) : MatchesDate(SubSeq(str, i, Len(str)))}
    IN  IF starts = {} THEN str
        ELSE SubSeq(str, 1, (CHOOSE i \in starts : \A j \in starts : i <= j) - 1)

\* len(str.split()): the number of runs of non-whitespace characters
WordCount(str) ==
    Cardinality({i \in 1..Len(str) :
        /\ str[i] \notin Whitespace
        /\ (i = 1 \/ str[i - 1] \in Whitespace)})

\* re.sub(r"\s+", "_", str)
RECURSIVE SpacesToUnderscore(_)
SpacesToUnderscore(str) ==
    IF str = <<>> THEN <<>>
    ELSE IF Head(str) \notin Whitespace THEN <<Head(str)>> \o SpacesToUnderscore(Tail(str))
    ELSE IF Len(str) > 1 /\ str[2] \in Whitespace THEN SpacesToUnderscore(Tail(str))
    ELSE <<"_">> \o SpacesToUnderscore(Tail(str))

\* the characters of the model's subjects that [^\w\-äöåÄÖÅ] does not match
FilenameSafe == Digits \cup {"a", "b", "c", "d", "p", "P", "_", "-"}

\* re.sub(r"[^\w\-äöåÄÖÅ]", "", str)
RemoveUnsafe(str) == SelectSeq(str, LAMBDA c : c \in FilenameSafe)

\* str.strip(chars)
RECURSIVE StripChars(_, _)
StripChars(str, chars) ==
    IF str = <<>> THEN <<>>
    ELSE IF Head(str) \in chars THEN StripChars(Tail(str), chars)
    ELSE IF str[Len(str)] \in chars THEN StripChars(SubSeq(str, 1, Len(str) - 1), chars)
    ELSE str

\* archiver.py:219
Separators == << <<" ", "-", " ">>, <<",", " ">>, <<":", " ">> >>

\* the separator that comes first in the text, whatever its rank
SeparatorByPosition(text) ==
    LET found == {k \in 1..Len(Separators) : Find(text, Separators[k]) > 0}
    IN  IF found = {} THEN 0
        ELSE CHOOSE k \in found :
               \A l \in found : Find(text, Separators[k]) <= Find(text, Separators[l])

\* archiver.py:219-220: the first separator of the list that the text contains, 0
\* when it contains none
SeparatorOf(text) ==
    LET found == {k \in 1..Len(Separators) : Find(text, Separators[k]) > 0}
    IN  IF found = {} THEN 0 ELSE CHOOSE k \in found : \A l \in found : k <= l

\* archiver.py:217-230: the part of the subject the label is made of
LabelSource(subject) ==
    LET text == Strip(subject)
        k == SeparatorOf(text)
        at == Find(text, Separators[k])
        left == SubSeq(text, 1, at - 1)
        right == SubSeq(text, at + Len(Separators[k]), Len(text))
        right_clean == Strip(right)
        right_no_date == RemoveTrailingDate(right_clean)
    IN  IF k = 0 THEN text
        ELSE IF Strip(right_no_date) # <<>> /\ WordCount(right_no_date) <= 2
        THEN right_clean
        ELSE Strip(left)

\* the cleaning with the final strip done before the unsafe characters are removed
CleanLabelStripFirst(text) ==
    RemoveUnsafe(StripChars(SpacesToUnderscore(LowerStr(Strip(RemoveTrailingDate(text)))),
                            {"_", "-"}))

\* archiver.py:232-248: the cleaning of the chosen part
CleanLabel(text) ==
    StripChars(RemoveUnsafe(SpacesToUnderscore(LowerStr(Strip(RemoveTrailingDate(text))))),
               {"_", "-"})

\* infer_label(subject, default_label); subject.set is false for None
infer_label(subject, default_label) ==
    IF ~subject.set \/ subject.value = <<>> THEN default_label
    ELSE LET text == CleanLabel(LabelSource(subject.value))
         IN  IF text # <<>> THEN text ELSE default_label

\* the parts a subject is put together from: words, separators, a trailing date
SubjectWords ==
    {<<>>, <<"a">>, <<"P", " ", "c">>, <<"b", " ", "c", " ", "d">>, <<"a", "-", "!">>}
SubjectSeparators == {Separators[k] : k \in 1..Len(Separators)}
SubjectDates ==
    {<<>>, <<" ", "4", ".", "1", ".">>, <<"4", ".", "1", ".">>,
     <<" ", "1", "2", ".", "1", ".", "2", "0", "2", "6">>}
SubjectTails == {<<>>, <<" ">>}

\* subjects of one to three parts around separators, with or without a date
Subjects ==
    {w \o d \o t : w \in SubjectWords, d \in SubjectDates, t \in SubjectTails}
    \cup {w1 \o s1 \o w2 \o d \o t :
            w1 \in SubjectWords, s1 \in SubjectSeparators, w2 \in SubjectWords,
            d \in SubjectDates, t \in SubjectTails}
    \cup {w1 \o s1 \o w2 \o s2 \o w3 \o d :
            w1 \in SubjectWords, s1 \in SubjectSeparators, w2 \in SubjectWords,
            s2 \in SubjectSeparators, w3 \in SubjectWords, d \in SubjectDates}

DefaultLabels ==
    {<<"p">>, <<"P">>, <<"c", ",", " ", "d">>}

InitLabel ==
    /\ Quiet
    /\ call \in [pc : {"call"}, fn : {"infer_label"},
                 subject : {Absent} \cup {Present(x) : x \in Subjects},
                 default_label : DefaultLabels, result : {<<>>}, again : {<<>>}]

\* the call infer_label(subject, default_label), and infer_label applied to its result
InferLabel ==
    /\ call.pc = "call"
    /\ call.fn = "infer_label"
    /\ LET label == infer_label(call.subject, call.default_label)
       IN  call' = [call EXCEPT !.pc = "done", !.result = label,
                       !.again = infer_label(Present(label), call.default_label)]
    /\ UNCHANGED QuietVars

NextLabel == InferLabel

SpecLabel == InitLabel /\ [][NextLabel]_vars

---------------------------------------------------------------------------
(* archiver._escape_typst *)

\* str.replace(char, "\\" + char) for a one-character char
RECURSIVE EscapeChar(_, _)
EscapeChar(text, char) ==
    IF text = <<>> THEN <<>>
    ELSE (IF Head(text) = char THEN <<"\\", char>> ELSE <<Head(text)>>)
         \o EscapeChar(Tail(text), char)

\* the replacements done one after the other, in the order of chars
RECURSIVE EscapeAll(_, _)
EscapeAll(text, chars) ==
    IF chars = <<>> THEN text ELSE EscapeAll(EscapeChar(text, Head(chars)), Tail(chars))

\* the grave accent (U+0060), which cannot be written inside a TLA+ string
Grave == "grave"

\* archiver.py:193
TypstSpecial == <<"\\", "#", "*", "_", Grave, "<", ">", "@", "$", "~">>

\* the same replacements with the backslash done last
EscapeBackslashLast(text) == EscapeAll(text, Tail(TypstSpecial) \o <<"\\">>)

\* _escape_typst(text)
_escape_typst(text) == EscapeAll(text, TypstSpecial)

\* the characters of the texts: the backslash, four more special characters and two
\* that are not special
TextChars == {"\\", "#", "_", "$", Grave, "a", " "}

InitEscape ==
    /\ Quiet
    /\ call \in [pc : {"call"}, fn : {"_escape_typst"},
                 text : SeqsUpTo(TextChars, MaxText), result : {<<>>}]

\* the call _escape_typst(text)
EscapeTypst ==
    /\ call.pc = "call"
    /\ call.fn = "_escape_typst"
    /\ call' = [call EXCEPT !.pc = "done", !.result = _escape_typst(call.text)]
    /\ UNCHANGED QuietVars

NextEscape == EscapeTypst

SpecEscape == InitEscape /\ [][NextEscape]_vars

---------------------------------------------------------------------------
(* archiver.parse_osticket_date and the cover page's creation date *)

\* str(n) for n >= 0
RECURSIVE IntStr(_)
IntStr(n) ==
    LET d == <<"0", "1", "2", "3", "4", "5", "6", "7", "8", "9">>[(n % 10) + 1]
    IN  IF n < 10 THEN <<d>> ELSE IntStr(n \div 10) \o <<d>>

\* the text that strptime's %m and %I take: 1[0-2]|0[1-9]|[1-9]
OneToTwelve(str) == IsDigits(str, 1, 2) /\ ParseInt(str) \in 1..12

\* the text that %d takes: 3[01]|[12]\d|0[1-9]|[1-9]| [1-9]
DayOfMonth(str) ==
    \/ IsDigits(str, 1, 2) /\ ParseInt(str) \in 1..31
    \/ Len(str) = 2 /\ str[1] = " " /\ str[2] \in Digits \ {"0"}

\* the text that %M takes: [0-5]\d|\d
Minute(str) == IsDigits(str, 1, 2) /\ ParseInt(str) \in 0..59

\* the text that %p takes, in either case
AmPm(str) == Len(str) = 2 /\ str[1] \in {"a", "A", "p", "P"} /\ str[2] \in {"m", "M"}

\* %y: 69..99 are in the 1900s, 0..68 in the 2000s
FullYear(yy) == IF yy <= 68 THEN 2000 + yy ELSE 1900 + yy

IsLeap(year) == year % 4 = 0 /\ (year % 100 # 0 \/ year % 400 = 0)

DaysInMonth(month, year) ==
    IF month = 2 THEN (IF IsLeap(year) THEN 29 ELSE 28)
    ELSE IF month \in {4, 6, 9, 11} THEN 30 ELSE 31

\* the parts of a text between runs of spaces
Words(str) == SelectSeq(Split(str, " "), LAMBDA w : w # <<>>)

\* parse_osticket_date(date_str): datetime.strptime(date_str.strip(),
\* "%m/%d/%y %I:%M %p").date(), or ValueError
parse_osticket_date(date_str) ==
    LET failed == [raised |-> TRUE, day |-> 0, month |-> 0, year |-> 0]
        parts == Split(Strip(date_str), "/")
        words == Words(parts[3])
        clock == Split(words[2], ":")
        day == ParseInt(StripChars(parts[2], {" "}))
        month == ParseInt(parts[1])
        year == FullYear(ParseInt(words[1]))
    IN  IF Len(parts) # 3 THEN failed
        ELSE IF ~(OneToTwelve(parts[1]) /\ DayOfMonth(parts[2])) THEN failed
        ELSE IF parts[3] = <<>> \/ Head(parts[3]) = " " \/ Len(words) # 3 THEN failed
        ELSE IF ~(IsDigits(words[1], 2, 2) /\ AmPm(words[3])) THEN failed
        ELSE IF Len(clock) # 2 THEN failed
        ELSE IF ~(OneToTwelve(clock[1]) /\ Minute(clock[2])) THEN failed
        ELSE IF day > DaysInMonth(month, year) THEN failed
        ELSE [raised |-> FALSE, day |-> day, month |-> month, year |-> year]

\* date.strftime("%-d.%-m.%Y")
Strftime(d) == IntStr(d.day) \o <<".">> \o IntStr(d.month) \o <<".">> \o IntStr(d.year)

\* archiver.py:281-286 without the except clause: the ValueError leaves the function
DateDisplayUncaught(created_str) ==
    LET d == parse_osticket_date(created_str)
    IN  IF d.raised THEN [raised |-> Exc("ValueError", "does_not_match_format"), text |-> <<>>]
        ELSE [raised |-> NoExc, text |-> Strftime(d)]

\* archiver.py:281-286: date_display
DateDisplay(created_str) ==
    LET d == parse_osticket_date(created_str)
    IN  IF d.raised THEN [raised |-> NoExc, text |-> created_str]
        ELSE [raised |-> NoExc, text |-> Strftime(d)]

\* creation-date texts, each with what datetime.strptime makes of it: whether it
\* parses as "%m/%d/%y %I:%M %p" and the date when it does
CreatedStrings ==
    {[text |-> <<"1", "/", "3", "/", "2", "6", " ", "9", ":", "2", "0", " ", "P", "M">>, parses |-> TRUE, day |-> 3, month |-> 1, year |-> 2026],
     [text |-> <<"0", "1", "/", "0", "3", "/", "2", "6", " ", "0", "9", ":", "2", "0", " ", "p", "m">>, parses |-> TRUE, day |-> 3, month |-> 1, year |-> 2026],
     [text |-> <<"1", "2", "/", "3", "1", "/", "9", "9", " ", "1", "2", ":", "0", "0", " ", "A", "M">>, parses |-> TRUE, day |-> 31, month |-> 12, year |-> 1999],
     [text |-> <<"2", "/", "2", "9", "/", "2", "4", " ", "1", ":", "0", "5", " ", "A", "M">>, parses |-> TRUE, day |-> 29, month |-> 2, year |-> 2024],
     [text |-> <<"2", "/", "2", "9", "/", "2", "6", " ", "1", ":", "0", "5", " ", "A", "M">>, parses |-> FALSE, day |-> 0, month |-> 0, year |-> 0],
     [text |-> <<"1", "3", "/", "1", "/", "2", "6", " ", "9", ":", "2", "0", " ", "P", "M">>, parses |-> FALSE, day |-> 0, month |-> 0, year |-> 0],
     [text |-> <<"1", "/", "3", "/", "2", "0", "2", "6", " ", "9", ":", "2", "0", " ", "P", "M">>, parses |-> FALSE, day |-> 0, month |-> 0, year |-> 0],
     [text |-> <<"1", "/", "3", "/", "2", "6", " ", "2", "1", ":", "2", "0">>, parses |-> FALSE, day |-> 0, month |-> 0, year |-> 0],
     [text |-> <<"1", "/", "3", "/", "2", "6", " ", " ", "9", ":", "2", "0", " ", " ", "P", "M">>, parses |-> TRUE, day |-> 3, month |-> 1, year |-> 2026],
     [text |-> <<" ", "1", "/", "3", "/", "2", "6", " ", "9", ":", "2", "0", " ", "P", "M", " ">>, parses |-> TRUE, day |-> 3, month |-> 1, year |-> 2026],
     [text |-> <<"1", "/", " ", "3", "/", "2", "6", " ", "9", ":", "2", "0", " ", "P", "M">>, parses |-> TRUE, day |-> 3, month |-> 1, year |-> 2026],
     [text |-> <<"3", ".", "1", ".", "2", "0", "2", "6">>, parses |-> FALSE, day |-> 0, month |-> 0, year |-> 0],
     [text |-> <<>>, parses |-> FALSE, day |-> 0, month |-> 0, year |-> 0],
     [text |-> <<"#", "1", "/", "3", "/", "2", "6">>, parses |-> FALSE, day |-> 0, month |-> 0, year |-> 0],
     [text |-> <<"1", "/", "3", "/", "2", "6", " ", "9", ":", "2", "0", " ", "P", "M", "_">>, parses |-> FALSE, day |-> 0, month |-> 0, year |-> 0],
     [text |-> <<"1", "/", "3", "/", "2", "6", " ", "9", ":", "5", " ", "P", "M">>, parses |-> TRUE, day |-> 3, month |-> 1, year |-> 2026],
     [text |-> <<"0", "/", "3", "/", "2", "6", " ", "9", ":", "2", "0", " ", "P", "M">>, parses |-> FALSE, day |-> 0, month |-> 0, year |-> 0],
     [text |-> <<"4", "/", "3", "1", "/", "2", "6", " ", "9", ":", "2", "0", " ", "P", "M">>, parses |-> FALSE, day |-> 0, month |-> 0, year |-> 0],
     [text |-> <<"1", "0", "/", "1", "0", "/", "6", "8", " ", "1", "0", ":", "5", "9", " ", "a", "m">>, parses |-> TRUE, day |-> 10, month |-> 10, year |-> 2068]}

---------------------------------------------------------------------------
(* archiver.generate_typst_source *)

\* _format_size(size_bytes)
_format_size(size_bytes) ==
    IF size_bytes < 1024 THEN IntStr(size_bytes) \o <<" ", "B">>
    ELSE IF size_bytes < 1024 * 1024
    THEN IntStr(RoundHalfEven(size_bytes, 1024)) \o <<" ", "K", "B">>
    ELSE LET tenths == RoundHalfEven(size_bytes * 10, 1024 * 1024)
         IN  IntStr(tenths \div 10) \o <<".">> \o IntStr(tenths % 10) \o <<" ", "M", "B">>

\* the arrow (U+2192) of archiver.py:302
Arrow == "arrow"

\* every descriptor shown as name and size only
AttachmentLineSizeOnly(att) ==
    <<"+", " ">> \o _escape_typst(att.name) \o <<" ", "(">>
        \o _format_size(att.original_size) \o <<")">>

\* archiver.py:297-306: the line of one descriptor, with the labels' defaults
AttachmentLine(att) ==
    LET name == _escape_typst(att.name)
        orig_size == _format_size(att.original_size)
    IN  IF att.type = "image" /\ att.has_compressed
        THEN <<"+", " ">> \o name \o <<" ", "(">> \o orig_size \o <<" ", Arrow, " ">>
                 \o _format_size(att.compressed_size) \o <<",", " ">> \o <<"c", "o", "m", "p", "r", "e", "s", "s", "e", "d">> \o <<")">>
        ELSE IF att.type = "pdf"
        THEN <<"+", " ">> \o name \o <<" ", "(">> \o orig_size \o <<",", " ">>
                 \o <<"o", "r", "i", "g", "i", "n", "a", "l">> \o <<")">>
        ELSE <<"+", " ">> \o name \o <<" ", "(">> \o orig_size \o <<")">>

\* "\n".join(lines)
RECURSIVE JoinLines(_)
JoinLines(lines) ==
    IF lines = <<>> THEN <<>>
    ELSE IF Len(lines) = 1 THEN lines[1]
    ELSE lines[1] \o <<"\n">> \o JoinLines(Tail(lines))

\* pdf_strings.get("no_attachments", "No attachments.")
NoAttachments == <<"N", "o", " ", "a", "t", "t", "a", "c", "h", "m", "e", "n", "t", "s", ".">>

\* archiver.py:295-308
AttachmentsBlock(attachments_info) ==
    LET att_lines == [i \in 1..Len(attachments_info) |-> AttachmentLine(attachments_info[i])]
    IN  IF att_lines # <<>> THEN JoinLines(att_lines) ELSE NoAttachments

\* archiver.py:311-314; the logo's file name is logo.png
LogoBlock(logo) ==
    IF logo THEN <<"#", "i", "m", "a", "g", "e", "(", "\"", "l", "o", "g", "o", ".", "p", "n", "g", "\"", ",", " ", "w", "i", "d", "t", "h", ":", " ", "4", "0", "%", ")">> ELSE <<>>

\* generate_typst_source(ticket_data, attachments_info, config, strings) with the
\* default strings: what it raises and the values that the template's placeholders
\* are given
generate_typst_source(ticket_data, attachments_info, logo) ==
    LET date_display == DateDisplay(ticket_data.created)
    IN  IF date_display.raised # NoExc
        THEN [raised |-> date_display.raised, source |-> <<>>]
        ELSE [raised |-> NoExc,
              source |->
                [document_title |-> <<"O", "S", "T", "i", "c", "k", "e", "t", " ", "#">> \o ticket_data.id,
                 title_block |-> <<"#", "t", "e", "x", "t", "(", "s", "i", "z", "e", ":", " ", "1", "6", "p", "t", ",", " ", "w", "e", "i", "g", "h", "t", ":", " ", "\"", "b", "o", "l", "d", "\"", ")", "[", "O", "S", "T", "i", "c", "k", "e", "t", " ", "\\", "#">>
                                    \o ticket_data.id \o <<"]">>,
                 ticket_id |-> ticket_data.id,
                 ticket_number |-> ticket_data.number,
                 logo_block |-> LogoBlock(logo),
                 subject |-> _escape_typst(ticket_data.subject),
                 user_name |-> _escape_typst(ticket_data.user_name),
                 date_display |-> date_display.text,
                 message |-> _escape_typst(ticket_data.message),
                 attachments_block |-> AttachmentsBlock(attachments_info)]]

\* descriptors: a compressed image, an image without a compressed size, two PDFs
\* (one with a compressed size) and a descriptor of another type
Descriptors ==
    {AttachmentInfo(<<"p", "_", "1", ".", "j", "p", "g">>, 5000000, TRUE, 87000, "image"),
     AttachmentInfo(<<"s", ".", "p", "n", "g">>, 500, FALSE, 0, "image"),
     AttachmentInfo(<<"r", ".", "p", "d", "f">>, 114000, FALSE, 0, "pdf"),
     AttachmentInfo(<<"a", "#", "b", ".", "p", "d", "f">>, 1023, TRUE, 1536, "pdf"),
     AttachmentInfo(<<"n", ".", "t", "x", "t">>, 1536, FALSE, 0, "unknown")}

\* ticket ids and numbers, subjects, sender names and messages: one plain text and
\* one with special characters of each
TicketDatas ==
    [id : {<<"3", "3", "9">>, <<"3", "#", "9">>},
     number : {<<"6", "5", "6", "6", "9", "4">>, <<"#", "6", "5", "6", "6", "9", "4">>},
     user_name : {<<"J", "o">>, <<"J", "_", "o">>},
     created : {c.text : c \in CreatedStrings},
     subject : {<<"F", "o", "o", "d">>, <<"#", "s", " ", "*", "c", "*">>},
     message : {<<"2", "9", "euro">>, <<"$", "1", " ", "<", "b", ">">>}]

InitCover ==
    /\ Quiet
    /\ call \in [pc : {"call"}, fn : {"generate_typst_source"},
                 ticket_data : TicketDatas,
                 attachments_info : SeqsUpTo(Descriptors, MaxAttachments),
                 logo : BOOLEAN, result : {<<>>}]

\* the call generate_typst_source(ticket_data, attachments_info, config, strings)
GenerateTypstSource ==
    /\ call.pc = "call"
    /\ call.fn = "generate_typst_source"
    /\ call' = [call EXCEPT !.pc = "done",
                            !.result = generate_typst_source(call.ticket_data,
                                           call.attachments_info, call.logo)]
    /\ UNCHANGED QuietVars

NextCover == GenerateTypstSource

SpecCover == InitCover /\ [][NextCover]_vars

---------------------------------------------------------------------------
(* browser.OSTicketBrowser as a context manager: `with OSTicketBrowser(...)` *)

\* what __enter__ makes, in the order it makes them
Resources == <<"playwright", "browser", "context", "page">>

\* the statements of __enter__ (browser.py:59-66); the n-th of the first four makes
\* the n-th resource
EnterSteps == <<"start", "launch", "new_context", "new_page", "login">>

\* browser.py:52-56: nothing made yet
NoResources == [r \in Range(Resources) |-> "none"]

\* the resources after the first n statements of __enter__ ran
MadeBy(n) ==
    [r \in Range(Resources) |->
        IF \E k \in 1..n : k <= Len(Resources) /\ Resources[k] = r THEN "open" ELSE "none"]

\* the order in which __exit__ closes (browser.py:70-77)
CloseOrder == <<"page", "context", "browser", "playwright">>

\* __exit__ with its first n closing calls done; a resource that was never made is
\* skipped by the `if`
ClosedBy(res, n) ==
    [r \in Range(Resources) |->
        IF res[r] = "open" /\ \E k \in 1..n : CloseOrder[k] = r THEN "closed" ELSE res[r]]

\* the commands of cli.py that use the context manager
BrowserCommands == {"list", "read", "resolve"}

InitBrowser ==
    /\ Quiet
    /\ call \in [pc : {"enter"}, fn : {"OSTicketBrowser"}, command : BrowserCommands,
                 headless : BOOLEAN, res : {NoResources}, raised : {NoExc},
                 context : {NoExc}]

\* __enter__ (browser.py:58-66): each statement can raise, and the login can time out
\* (wait_for_url); an exception leaves the with statement without __exit__ being called
Enter ==
    /\ call.pc = "enter"
    /\ call.fn = "OSTicketBrowser"
    /\ \E failed \in 0..Len(EnterSteps), timed_out \in BOOLEAN :
         /\ timed_out => failed = Len(EnterSteps)
         /\ call' = IF failed = 0
                    THEN [call EXCEPT !.pc = "body", !.res = MadeBy(Len(EnterSteps))]
                    ELSE [call EXCEPT !.pc = "left", !.res = MadeBy(failed - 1),
                                      !.raised = IF timed_out
                                                 THEN Exc("TimeoutError", EnterSteps[failed])
                                                 ELSE Exc("PlaywrightError", EnterSteps[failed])]
    /\ UNCHANGED QuietVars

\* the body of the with statement (cli.py:73-74, 135-165, 202-...) ends or raises
Body ==
    /\ call.pc = "body"
    /\ \E raises \in BOOLEAN :
         call' = [call EXCEPT !.pc = "exit",
                              !.raised = IF raises THEN Exc("Exception", call.command)
                                         ELSE NoExc]
    /\ UNCHANGED QuietVars

\* __exit__ (browser.py:68-77): the four closing calls in order; one that raises
\* leaves the method, and its exception replaces the body's, which becomes its
\* __context__
Exit ==
    /\ call.pc = "exit"
    /\ \E failed \in 0..Len(CloseOrder) :
         call' = IF failed = 0
                 THEN [call EXCEPT !.pc = "left", !.res = ClosedBy(call.res, Len(CloseOrder))]
                 ELSE [call EXCEPT !.pc = "left", !.res = ClosedBy(call.res, failed - 1),
                                   !.raised = Exc("PlaywrightError", CloseOrder[failed]),
                                   !.context = call.raised]
    /\ UNCHANGED QuietVars

NextBrowser == Enter \/ Body \/ Exit

SpecBrowser == InitBrowser /\ [][NextBrowser]_vars

---------------------------------------------------------------------------
(* Claims *)

RunTicket(i) == run[i].ticket_id
RunFolder(i) == fs_inbox[run[i].ticket_id]

\* C1: a call that passed the folder and metadata checks and finds the output file
\* in place with force unset returns, without raising, the report that names the
\* existing path and the overwrite flag, and leaves every file as it was; this
\* holds for each of the repeated calls for one ticket id.
C1_ExistingOutputKept ==
    [][\A i \in DOMAIN run :
         ( /\ run[i].pc = "begin"
           /\ run'[i].pc # "begin"
           /\ RunFolder(i).exists
           /\ TicketJson \in DOMAIN RunFolder(i).files
           /\ fs_out[RunTicket(i)] # NoFile
           /\ ~run[i].force )
         => /\ run'[i].pc = "returned"
            /\ run'[i].result.type = "already_exists"
            /\ run'[i].result.path = OutputPath(RunTicket(i))
            /\ run'[i].result.hint = "use_force"
            /\ fs_out' = fs_out
            /\ fs_inbox' = fs_inbox
            /\ fs_scratch' = fs_scratch]_vars

\* C1 witness: a second call for the same ticket id returned the already-exists
\* report while the receipt written by the first call is in place.
C1_Witness ==
    /\ 2 \in DOMAIN run
    /\ run[2].pc = "returned"
    /\ run[2].result.type = "already_exists"
    /\ run[1].pc = "ended"
    /\ run[1].result.type = "generated"
    /\ run[1].ticket_id = run[2].ticket_id
    /\ fs_out[run[2].ticket_id].ok

\* the pages an attachment entry contributes: those of the file stored under the
\* listed name when it is a PDF, one page when it is an image, none otherwise
EntryPages(folder, name) ==
    LET f == FileAt(folder, name)
    IN  IF ~FileExists(folder, name) THEN <<>>
        ELSE IF _is_pdf_file(name, f) THEN f.pages
        ELSE IF _is_image_file(name, f) THEN << <<f.id, 1>> >>
        ELSE <<>>

ListedPages(folder) ==
    LET names == FileAt(folder, TicketJson).data.attachments
    IN  Flatten([j \in 1..Len(names) |-> EntryPages(folder, names[j])])

\* C2: after a successful run the output's pages are the cover page, then the pages
\* of each listed attachment in metadata order, leaving out exactly the entries
\* whose file is missing or is neither a PDF nor an image.
C2_PageOrder ==
    \A i \in DOMAIN run :
        (run[i].pc = "returned" /\ run[i].result.type = "generated")
        => /\ fs_out[RunTicket(i)].ok
           /\ fs_out[RunTicket(i)].pages = <<CoverPage>> \o ListedPages(RunFolder(i))

\* C3: after a run that failed (in cover compilation, in merging or in the final
\* write) the destination path is absent or holds a complete file, never a partial one.
C3_NoPartialOutput ==
    \A i \in DOMAIN run :
        run[i].pc = "raised"
        => (fs_out[RunTicket(i)] = NoFile \/ fs_out[RunTicket(i)].ok)

\* C4: a run that created its scratch directory has attempted to remove it when it
\* ends, by return or by exception; after a removal that succeeded the directory is
\* gone; the run ends with the error of the try block, or with the report when there
\* was none, whether or not the removal succeeded.
C4_ScratchRemoved ==
    \A i \in DOMAIN run :
        (run[i].pc \in {"returned", "raised"} /\ run[i].work_dir # NoWorkDir)
        => /\ run[i].cleanup \in {"removed", "failed"}
           /\ run[i].cleanup = "removed" => ~fs_scratch[run[i].work_dir].exists
           /\ run[i].pending.kind = "none"
                => (run[i].pc = "returned" /\ run[i].result.type = "generated")
           /\ run[i].pending.kind # "none"
                => (run[i].pc = "raised" /\ run[i].raised = run[i].pending)

\* C4 witness: a run ended by the exception of a damaged attachment after its
\* scratch directory, which held a converted image, was removed.
C4_Witness ==
    \E i \in DOMAIN run :
        /\ run[i].pc = "raised"
        /\ run[i].raised.kind = "PdfError"
        /\ run[i].attachment_pdfs # <<>>
        /\ run[i].cleanup = "removed"
        /\ ~fs_scratch[run[i].work_dir].exists

\* C5 (as stated): the missing-folder error and the missing-metadata error are of
\* different kinds.
C5_DistinctKinds ==
    \A i, j \in DOMAIN run :
        ( /\ run[i].raised.msg = "inbox_not_found"
          /\ run[j].raised.msg = "ticket_json_missing_run_read_first" )
        => run[i].raised.kind # run[j].raised.kind

\* C5 (amended): the call raises FileNotFoundError when the inbox folder is absent
\* and FileNotFoundError again when the folder exists without ticket.json; the two
\* differ in the message only, the second carrying the guidance to run read first.
C5_SameKindDistinctMessage ==
    [][\A i \in DOMAIN run :
         (run[i].pc = "begin" /\ run'[i].pc # "begin")
         => /\ ~RunFolder(i).exists
                => /\ run'[i].pc = "raised"
                   /\ run'[i].raised.kind = "FileNotFoundError"
                   /\ run'[i].raised.msg = "inbox_not_found"
            /\ (RunFolder(i).exists /\ TicketJson \notin DOMAIN RunFolder(i).files)
                => /\ run'[i].pc = "raised"
                   /\ run'[i].raised.kind = "FileNotFoundError"
                   /\ run'[i].raised.msg = "ticket_json_missing_run_read_first"]_vars

\* C5 witness: one call failed on the absent folder, a later one on the absent metadata.
C5_Witness ==
    \E i, j \in DOMAIN run :
        /\ run[i].raised.msg = "inbox_not_found"
        /\ run[j].pc = "raised"
        /\ run[j].raised.msg = "ticket_json_missing_run_read_first"

StructuralMsgs == {"inbox_not_found", "ticket_json_missing_run_read_first"}

\* C6: in a batch, a missing folder or missing metadata of one ticket is reported
\* for that ticket and does not end the command: the loop goes on to the next
\* ticket, and a command that ends normally has read every ticket of the batch.
C6_StructuralErrorsStayLocal ==
    /\ \A i \in DOMAIN run :
         (run[i].pc = "ended" /\ run[i].raised.msg \in StructuralMsgs)
         => /\ stderr[i] = "generation_failed"
            /\ idx > i
            /\ exit.msg \notin StructuralMsgs
    /\ cli_pc = "done" => Len(all_outputs) = NumTickets

\* C6 witness: the first ticket's receipt failed on its missing folder, the second
\* ticket was read, downloaded and archived, and the command ended normally.
C6_Witness ==
    /\ cli_pc = "done"
    /\ 2 \in DOMAIN run
    /\ run[1].raised.msg = "inbox_not_found"
    /\ stderr[1] = "generation_failed"
    /\ run[2].result.type = "generated"
    /\ fs_out[run[2].ticket_id].ok

\* C7: a cover-compilation failure or a merge failure, a damaged attachment PDF
\* included, leaves generate_receipt_pdf as RuntimeError, is reported for its ticket
\* and does not end the command.
C7_CompileMergeRuntimeError ==
    \A i \in DOMAIN run :
        (run[i].raised.msg \in {"typst_compilation_failed", "unreadable_pdf", "save_failed"})
        => /\ run[i].raised.kind = "RuntimeError"
           /\ run[i].pc = "ended" => (stderr[i] = "generation_failed" /\ idx > i)

\* C8: receipt generation for a ticket starts only after this iteration's ingestion
\* has written the ticket's metadata file into its inbox folder, also for a ticket
\* without attachments.
C8_MetadataBeforeGeneration ==
    cli_pc = "generate"
    => /\ FileExists(fs_inbox[ticket.id], TicketJson)
       /\ FileAt(fs_inbox[ticket.id], TicketJson).data = Metadata(ticket)

\* C9: every file that download_attachments stored is in the inbox folder under a
\* name that the metadata's attachments list records.
C9_StoredUnderListedName ==
    \A n \in 1..Len(all_outputs) :
        LET folder == fs_inbox[all_outputs[n].ticket_id]
        IN  \A f \in Range(all_outputs[n].downloaded) :
              /\ FileExists(folder, f)
              /\ f \in Range(FileAt(folder, TicketJson).data.attachments)

\* C10: for an image wider than max_width the returned compressed size
\* is at most the returned original size, whatever the two encodings yield.
C10_NeverLarger ==
    (img.pc = "done" /\ img.file.width > img.max_width)
    => img.result.compressed_size <= img.result.original_size

\* a run that holds a scratch directory it has not yet tried to remove
HoldsScratch(fr) ==
    fr.work_dir # NoWorkDir /\ fr.pc \in {"attachments", "cover", "merge", "cleanup"}

\* C11: of two overlapping runs for different ticket ids, neither uses the other's
\* scratch directory, whatever suffixes were drawn: a step of one run, its cleanup
\* included, leaves the scratch directory held by the other as it was.
C11_ScratchExclusive ==
    [][\A i \in DOMAIN run, j \in DOMAIN run :
         ( /\ i # j
           /\ run[i].ticket_id # run[j].ticket_id
           /\ run'[i] # run[i]
           /\ HoldsScratch(run[j]) )
         => /\ run'[i].work_dir # run[j].work_dir
            /\ fs_scratch'[run[j].work_dir] = fs_scratch[run[j].work_dir]]_vars

\* C11 witness: one run has removed its scratch directory while the run for another
\* ticket still holds its own, with a converted image in it.
C11_Witness ==
    \E i \in DOMAIN run, j \in DOMAIN run :
        /\ run[i].ticket_id # run[j].ticket_id
        /\ run[i].cleanup = "removed"
        /\ run[j].pc = "merge"
        /\ run[j].attachment_pdfs # <<>>
        /\ \A n \in 1..Len(run[j].attachment_pdfs) :
               ReadPath(run[j].attachment_pdfs[n]) # NoFile

\* the run's merge saved the output file
WroteOutput(fr) == fr.total_pages > 0

\* C12: of the runs for one ticket id that do not set force, at most one writes the
\* output file, in every interleaving; every other one that returns returns the
\* already-exists report.
C12_AtMostOnce ==
    \A i \in DOMAIN run, j \in DOMAIN run :
        ( /\ i # j
          /\ run[i].ticket_id = run[j].ticket_id
          /\ ~run[i].force /\ ~run[j].force
          /\ WroteOutput(run[i]) )
        => /\ ~WroteOutput(run[j])
           /\ run[j].pc = "returned" => run[j].result.type = "already_exists"

\* the number of pages of the first n files
RECURSIVE PagesBefore(_, _)
PagesBefore(files, n) ==
    IF n = 0 THEN 0 ELSE PagesBefore(files, n - 1) + Len(files[n].pages)

\* C13: merge_pdfs returns the sum of its inputs' page counts and saves an output of
\* that many pages, each input's pages contiguous, in their own order and in the
\* order of the path list; an input that cannot be opened ends the call before
\* anything is saved.
C13_MergeConcatenates ==
    (call.pc = "done" /\ call.fn = "merge_pdfs")
    => LET files == call.files
           res == call.result
       IN  /\ res.raised = NoExc
                => /\ res.total_pages = PagesBefore(files, Len(files))
                   /\ res.output.ok
                   /\ Len(res.output.pages) = res.total_pages
                   /\ \A j \in 1..Len(files) : \A q \in 1..Len(files[j].pages) :
                        res.output.pages[PagesBefore(files, j - 1) + q] = files[j].pages[q]
           /\ (\E j \in 1..Len(files) : ~files[j].ok)
                => (res.raised # NoExc /\ res.output = call.old_output)

\* C13 witness: three documents of two, one and three pages were merged into six pages.
C13_Witness ==
    /\ call.pc = "done"
    /\ call.fn = "merge_pdfs"
    /\ Len(call.files) = 3
    /\ Len(call.files[1].pages) = 2
    /\ Len(call.files[2].pages) = 1
    /\ Len(call.files[3].pages) = 3
    /\ call.result.total_pages = 6
    /\ call.result.output.pages[3] = <<"a", 1>>

\* C14: after compile_typst the source file it wrote is gone, whether the compiler
\* exited with zero, exited nonzero or could not be started; the call raises
\* RuntimeError with the compiler's standard error in the message exactly when the
\* compiler exited nonzero; every other file of the directory is as it was, but for
\* the compiled PDF after exit status zero.
C14_SourceFileDeleted ==
    (call.pc = "done" /\ call.fn = "compile_typst")
    => LET res == call.result
       IN  /\ ~FileExists(res.folder, res.typ_path)
           /\ res.folder.exists
           /\ (call.outcome = "nonzero_exit")
                <=> (res.raised.kind = "RuntimeError" /\ res.message # <<>>)
           /\ call.outcome = "nonzero_exit" => res.message[Len(res.message)] = call.diag
           /\ call.outcome = "compiled"
                => (res.raised = NoExc /\ FileAt(res.folder, SummaryPdf).ok)
           /\ call.outcome = "not_installed"
                => (res.raised.kind \notin {"none", "RuntimeError"})
           /\ \A n \in DOMAIN call.folder.files :
                (n # SummaryPdf \/ call.outcome # "compiled")
                  => FileAt(res.folder, n) = call.folder.files[n]

\* C14 witness: the compiler could not be started in a directory that held a copied
\* logo; the source file is gone and the logo is still there.
C14_Witness ==
    /\ call.pc = "done"
    /\ call.fn = "compile_typst"
    /\ call.outcome = "not_installed"
    /\ call.result.raised.kind = "FileNotFoundError"
    /\ FileExists(call.result.folder, LogoName)
    /\ ~FileExists(call.result.folder, call.result.typ_path)

\* C15: the report of a successful run has as many numbered lines, the cover line
\* included, as the output has pages, and the number on each line is the position in
\* the output of the content the line describes.
C15_ReportLinePerPage ==
    \A i \in DOMAIN run :
        (run[i].pc = "returned" /\ run[i].result.type = "generated")
        => LET rep == run[i].result
               out == fs_out[RunTicket(i)].pages
           IN  /\ Len(rep.lines) = rep.total_pages
               /\ \A n \in 1..Len(rep.lines) :
                    /\ rep.lines[n].page_num <= Len(out)
                    /\ out[rep.lines[n].page_num] =
                         IF n = 1 THEN CoverPage
                         ELSE EntryPages(RunFolder(i), rep.lines[n].desc.name)[1]

ConfigDone == call.pc = "done" /\ call.fn = "load_config"

\* the three sources, each yielding a non-empty value
EnvSupplies == call.environ.set /\ call.environ.value # <<>>
FieldSupplies == call.osticket_data.password.set /\ call.osticket_data.password.value # <<>>
SecretsSupply ==
    /\ call.osticket_data.secrets_file.set
    /\ call.secrets.exists
    /\ IF call.osticket_data.secrets_file.value = SecretsGpg
       THEN call.secrets.gpg_ok /\ call.secrets.gpg_out \notin {<<>>, <<"\n">>}
       ELSE call.secrets.text \notin {<<>>, <<"\n">>}

\* the first source that yields a non-empty value gives the password, and a source
\* after it is not consulted
FirstSourceWins ==
    /\ EnvSupplies
         => /\ call.result.raised = NoExc
            /\ call.result.password.value = call.environ.value
            /\ call.result.consulted = {}
    /\ (~EnvSupplies /\ FieldSupplies)
         => /\ call.result.raised = NoExc
            /\ call.result.password.value = call.osticket_data.password.value
            /\ call.result.consulted = {}
    /\ (~EnvSupplies /\ ~FieldSupplies /\ SecretsSupply)
         => /\ call.result.raised = NoExc
            /\ call.result.password.value \in {<<"s">>, <<"g">>}
            /\ call.result.password.value = <<"g">>
                 <=> call.osticket_data.secrets_file.value = SecretsGpg

\* C16 (as stated): the first source in the order environment, password field,
\* secrets file that yields a non-empty value gives the password and no later source
\* is consulted; when no source supplies a password, load_config raises ValueError.
C16_ValueErrorWhenNoSource ==
    ConfigDone
    => /\ FirstSourceWins
       /\ (~EnvSupplies /\ ~FieldSupplies /\ ~SecretsSupply)
            => call.result.raised.kind = "ValueError"

\* C16 (amended): as stated for the first source that supplies a password; when none
\* does, load_config raises FileNotFoundError for a configured secrets file that
\* does not exist, RuntimeError for one that gpg cannot decrypt, and ValueError
\* otherwise (no secrets file configured, or one whose stripped content is empty).
C16_FirstSourceWins ==
    ConfigDone
    => /\ FirstSourceWins
       /\ (~EnvSupplies /\ ~FieldSupplies /\ ~SecretsSupply)
            => call.result.raised.kind =
                 IF ~call.osticket_data.secrets_file.set THEN "ValueError"
                 ELSE IF ~call.secrets.exists THEN "FileNotFoundError"
                 ELSE IF call.osticket_data.secrets_file.value = SecretsGpg
                         /\ ~call.secrets.gpg_ok THEN "RuntimeError"
                 ELSE "ValueError"

\* C16 witness: the environment variable is set to the empty string, the password
\* field is set, and a secrets file that does not exist is configured: the field's
\* value is the password and the missing file raised nothing.
C16_Witness ==
    /\ ConfigDone
    /\ call.environ = Present(<<>>)
    /\ call.osticket_data.password = Present(<<"c">>)
    /\ call.osticket_data.secrets_file.set
    /\ ~call.secrets.exists
    /\ call.result.raised = NoExc
    /\ call.result.password.value = <<"c">>

\* the sequence numbers in use for the call's date prefix in the call's directory
UsedNumbers ==
    {f.nn : f \in {g \in ArchiveFiles : /\ g.name \in call.dir.names
                                        /\ g.date = call.date_prefix
                                        /\ g.nn > 0}}

\* C17: next_sequential_number returns 1 when the directory does not exist or holds
\* no file <datePrefix>_<NN>_*.pdf with a numeric NN, and the largest such NN plus
\* one otherwise; files of another date prefix, with a non-numeric NN or of another
\* shape change nothing and raise nothing.
C17_NextNumber ==
    (call.pc = "done" /\ call.fn = "next_sequential_number")
    => /\ call.result >= 1
       /\ \A n \in UsedNumbers : call.result > n
       /\ (~call.dir.exists \/ UsedNumbers = {}) => call.result = 1
       /\ UsedNumbers # {} => call.result - 1 \in UsedNumbers

\* C17 witness: the directory holds the receipts 01, 02 and 10 of the date, one of
\* another date and one with a non-numeric number; the next number is 11.
C17_Witness ==
    /\ call.pc = "done"
    /\ call.fn = "next_sequential_number"
    /\ UsedNumbers = {1, 2, 10}
    /\ Cardinality(call.dir.names) >= 5
    /\ call.date_prefix = Date1
    /\ call.result = 11

LabelDone == call.pc = "done" /\ call.fn = "infer_label"

ContainsSeparator(str) == \E k \in 1..Len(Separators) : Find(str, Separators[k]) > 0
EndsWithDate(str) == \E i \in 1..Len(str) : MatchesDate(SubSeq(str, i, Len(str)))

LabelOrDefault(text) ==
    IF CleanLabel(text) = <<>> THEN call.default_label ELSE CleanLabel(text)

\* text = left sep right with no occurrence of sep that starts before this one
SplitsAtFirst(text, sep, left, right) ==
    /\ text = left \o sep \o right
    /\ \A i \in 1..Len(left) : SubSeq(text, i, i + Len(sep) - 1) # sep

Metacharacters == {"\\", "#", "*", "_", Grave, "<", ">", "@", "$", "~"}

\* the number of special characters among the first n characters of text
SpecialBefore(text, n) == Cardinality({i \in 1..n : text[i] \in Metacharacters})

\* C20: in the output of _escape_typst every character of the input is in its place
\* and in order, each special character with exactly one backslash before it and
\* nothing else added: the output is as long as the input plus the number of
\* special characters in it, and an added backslash is not escaped again.
C20_EscapedOnce ==
    (call.pc = "done" /\ call.fn = "_escape_typst")
    => LET text == call.text
           out == call.result
       IN  /\ Len(out) = Len(text) + SpecialBefore(text, Len(text))
           /\ \A i \in 1..Len(text) :
                /\ out[i + SpecialBefore(text, i)] = text[i]
                /\ text[i] \in Metacharacters => out[i + SpecialBefore(text, i) - 1] = "\\"

\* C20 witness: a text with a backslash followed by a hash and an ordinary character
\* came out with one backslash before each of the two.
C20_Witness ==
    /\ call.pc = "done"
    /\ call.fn = "_escape_typst"
    /\ call.text = <<"\\", "#", "a">>
    /\ call.result = <<"\\", "\\", "\\", "#", "a">>



\* C21: the page that compress_image_to_pdf makes from an image wider than max_width
\* is max_width wide and round(height * max_width / width) high, and an image at
\* most max_width wide keeps its width and height (the first encoding being kept).
C21_HeightRounded ==
    (img.pc = "done" /\ img.result.raised = NoExc /\ ~img.result.fallback)
    => img.result.dims =
         IF img.file.width > img.max_width
         THEN [width |-> img.max_width,
               height |-> RoundHalfEven(img.file.height * img.max_width, img.file.width)]
         ELSE [width |-> img.file.width, height |-> img.file.height]


CoverDone == call.pc = "done" /\ call.fn = "generate_typst_source"

\* what datetime.strptime makes of a creation-date text
Parsed(created) == CHOOSE c \in CreatedStrings : c.text = created

\* no number of the text starts with a zero
NoLeadingZero(str) ==
    \A i \in 1..Len(str) : (str[i] = "0" /\ i < Len(str)) => (i > 1 /\ str[i - 1] \in Digits)

\* C22: generate_typst_source raises nothing whatever the creation-date text is: a
\* text that does not parse as M/D/YY h:mm AM/PM is shown as it is, and one that
\* parses is shown as day.month.year with no leading zeros.
C22_DateNeverFails ==
    CoverDone
    => LET c == Parsed(call.ticket_data.created)
           shown == call.result.source.date_display
       IN  /\ call.result.raised = NoExc
           /\ ~c.parses => shown = c.text
           /\ c.parses => /\ shown = IntStr(c.day) \o <<".">> \o IntStr(c.month)
                                         \o <<".">> \o IntStr(c.year)
                          /\ NoLeadingZero(shown)

\* C22 witness: a creation date in 24-hour time, which does not parse, was shown as
\* it is.
C22_Witness ==
    /\ CoverDone
    /\ call.ticket_data.created = <<"1", "/", "3", "/", "2", "6", " ", "2", "1", ":", "2", "0">>
    /\ call.result.raised = NoExc
    /\ call.result.source.date_display = <<"1", "/", "3", "/", "2", "6", " ", "2", "1", ":", "2", "0">>

\* the line of a descriptor as the claim describes it
ExpectedLine(att) ==
    LET shown == <<"+", " ">> \o _escape_typst(att.name) \o <<" ", "(">>
                     \o _format_size(att.original_size)
    IN  IF att.type = "image" /\ att.has_compressed
        THEN shown \o <<" ", Arrow, " ">> \o _format_size(att.compressed_size)
                 \o <<",", " ", "c", "o", "m", "p", "r", "e", "s", "s", "e", "d", ")">>
        ELSE IF att.type = "pdf" THEN shown \o <<",", " ", "o", "r", "i", "g", "i", "n", "a", "l", ")">>
        ELSE shown \o <<")">>

\* C23: the attachments block of the cover source has one line per descriptor, in
\* the order of the descriptors: name, original size, compressed size and the
\* compressed label for an image with a compressed size; name, size and the original
\* label for a PDF; name and size for any other; with no descriptor the block is the
\* no-attachments message.
C23_LinePerDescriptor ==
    CoverDone
    => LET atts == call.attachments_info
           block == call.result.source.attachments_block
           lines == Split(block, "\n")
       IN  IF atts = <<>> THEN block = NoAttachments
           ELSE /\ Len(lines) = Len(atts)
                /\ \A i \in 1..Len(atts) : lines[i] = ExpectedLine(atts[i])

\* C23 witness: a compressed image and a descriptor of another type gave two lines.
C23_Witness ==
    /\ CoverDone
    /\ Len(call.attachments_info) = 2
    /\ call.attachments_info[1].type = "image" /\ call.attachments_info[1].has_compressed
    /\ call.attachments_info[2].type = "unknown"
    /\ Len(Split(call.result.source.attachments_block, "\n")) = 2

\* every special character of the text has a backslash of its own before it
RECURSIVE WellEscaped(_)
WellEscaped(str) ==
    IF str = <<>> THEN TRUE
    ELSE IF Head(str) = "\\"
    THEN Len(str) >= 2 /\ str[2] \in Metacharacters /\ WellEscaped(SubSeq(str, 3, Len(str)))
    ELSE Head(str) \notin Metacharacters /\ WellEscaped(Tail(str))

\* C28: what generate_typst_source puts in the cover source from the ticket record
\* (ticket id and number, subject, sender name, message, creation date, attachment
\* lines) holds no special character that is not escaped.
C28_TicketDataEscaped ==
    CoverDone
    => LET source == call.result.source
       IN  /\ WellEscaped(source.ticket_id)
           /\ WellEscaped(source.ticket_number)
           /\ WellEscaped(source.subject)
           /\ WellEscaped(source.user_name)
           /\ WellEscaped(source.message)
           /\ WellEscaped(source.date_display)
           /\ WellEscaped(source.attachments_block)


\* the folder of a ticket or its ticket.json is missing
Unarchivable(tid) == ~fs_inbox[tid].exists \/ TicketJson \notin DOMAIN fs_inbox[tid].files

\* C24: a generate_receipt_pdf call for a ticket whose inbox folder or ticket.json is
\* missing raises FileNotFoundError and writes nothing, also when the output file
\* exists and whatever `force` is: the two checks come before the output check.
C24_StructureCheckedFirst ==
    [][\A i \in DOMAIN run :
         (run[i].pc = "begin" /\ run'[i] # run[i] /\ Unarchivable(run[i].ticket_id))
         => /\ run'[i].pc = "raised"
            /\ run'[i].raised.kind = "FileNotFoundError"
            /\ run'[i].result = NoReport
            /\ fsVars' = fsVars]_vars

\* C24 witness: a forced call for a ticket without folder raised although the output
\* existed, and the output is as it was.
C24_Witness ==
    \E i \in DOMAIN run :
        /\ run[i].pc = "raised"
        /\ run[i].force
        /\ run[i].raised = Exc("FileNotFoundError", "inbox_not_found")
        /\ fs_out[run[i].ticket_id] \in LeftOutputs \ {NoFile}

\* the step of a call that ends it before the scratch directory is made
EndsEarly(i) ==
    /\ run[i].pc = "begin"
    /\ \/ run'[i].pc = "raised"
       \/ run'[i].pc = "returned" /\ run'[i].result.type = "already_exists"

\* C25: a generate_receipt_pdf call that ends on a missing folder, on a missing
\* ticket.json or on the existing output leaves every directory and file as it was:
\* no scratch directory is made and nothing is written or removed.
C25_EarlyExitTouchesNothing ==
    [][\A i \in DOMAIN run : EndsEarly(i) => fsVars' = fsVars]_vars

\* C25 witness: a call returned the already-exists report, no scratch directory exists
\* and the earlier output is in place.
C25_Witness ==
    \E i \in DOMAIN run :
        /\ run[i].pc = "returned"
        /\ run[i].result.type = "already_exists"
        /\ \A d \in WorkDirs : ~fs_scratch[d].exists
        /\ fs_out[run[i].ticket_id] \in LeftOutputs \ {NoFile}


\* C26: in every run the scratch path of each converted image differs from the
\* scratch path of the cover page, summary.pdf, so that compiling the cover
\* overwrites no attachment's page.
C26_CoverPathDistinct ==
    \A i \in DOMAIN run :
        \A n \in 1..Len(run[i].attachment_pdfs) :
            run[i].attachment_pdfs[n].root = "scratch"
            => run[i].attachment_pdfs[n].name # SummaryPdf


\* the lists of a run are read or extended at these positions
ListsInUse(fr) == fr.pc \in {"attachments", "cover", "merge"}

C29_DetailsWritten ==
    cli_pc \in {"done", "exited"}
    => \A n \in 1..Len(all_outputs) : all_outputs[n] \in Range(stdout)


\* C30: when the with statement of OSTicketBrowser has been left, on whatever path,
\* nothing that __enter__ made is still open: page, context, browser and driver are
\* closed, also after a login that failed or timed out.
C30_AllClosed ==
    (call.pc = "left" /\ call.fn = "OSTicketBrowser")
    => \A r \in Range(Resources) : call.res[r] # "open"

=============================================================================
